---- MODULE Spec2Model ----
(***************************************************************************)
(* Model of the MUTT ingestion daemon (phxntninja/MUTTv2.5).               *)
(*                                                                         *)
(* The daemon is one asyncio event loop running three persistent tasks     *)
(* (process_loop, batch_write_loop, archive_loop), the listener callbacks  *)
(* and the supervisor (MUTTDaemon.main / shutdown).  Blocking file I/O of  *)
(* the FileBuffer runs in worker threads (asyncio.to_thread), so a thread  *)
(* step may interleave with any event-loop step.  Every action below is    *)
(* the code that runs between two suspension points of one task, or one    *)
(* blocking call of one worker thread.                                     *)
(*                                                                         *)
(* Time is counted in archive intervals (archive_loop sleeps 24 hours), so *)
(* a timestamp is the number of whole days since start-up.                 *)
(***************************************************************************)
EXTENDS Integers, Sequences, FiniteSets, TLC

\* ---------------------------------------------------------------- bounds
MaxMsgs == 2          \* datagrams / traps received during one run
MaxTime == 2          \* archive intervals (days) that elapse during one run
MaxRetention == 1     \* largest configured retention_days
MaxStoreFailures == 1 \* store_message calls that raise during one run
MaxWrites == 3        \* FileBuffer alone: write calls
MaxDeaths == 2        \* FileBuffer alone: process deaths
MaxAuthCalls == 4     \* AuthFailureTracker alone: calls
MaxDatagrams == 3     \* listeners alone: datagrams and traps received
MaxValidations == 3   \* Validator alone: validate calls
MaxDeviceCalls == 3   \* DeviceRegistry alone: update_device calls
FlushThreshold == 2   \* FileBuffer(flush_threshold=...)

VARIABLES
    now,            \* wall clock, in days
    retention_days, \* config['retention_days']
    nextId,         \* number of Message objects constructed so far
    queue,          \* asyncio.Queue contents (FIFO)
    unfinished,     \* asyncio.Queue unfinished-task counter
    listeners,      \* listeners whose transport is open
    plPc, plMsg,    \* process_loop: suspension point, message in hand
    memory,         \* FileBuffer._memory_buffer
    file,           \* lines of buffer_active.jsonl
    fileExists,     \* os.path.exists(buffer_file)
    writers,        \* worker threads inside _write_batch_sync, per caller
    flushers,       \* worker threads inside _flush_sync, per caller
    bwPc, bwBatch,  \* batch_write_loop: suspension point, messages to store
    arPc, arCutoff, arRows, arFile, \* archive_loop and archive_old_messages
    dbMsgs, dbArchives,     \* tables as seen through the open connection
    cmMsgs, cmArchives,     \* tables as committed on disk
    archiveFiles,   \* archive_<stamp>.jsonl files written
    dPc,            \* MUTTDaemon.main / shutdown / MessageProcessor.stop
    ffBatch,        \* _final_flush: messages still to store
    failures,       \* database statements that raised so far
    rules,          \* PatternMatcher.rules, loaded at start-up
    handlers,       \* MessageRouter._handlers: what each action's handler does
    rtRules,        \* route: the rules of the call in progress or last made
    rtCalls,        \* route: handler invocations of that call, in order
    rtTasks,        \* route: state of the handler tasks handed to gather
    rtPc,           \* route: in progress, returned or raised to its caller
    bfWrites,       \* FileBuffer alone: write calls made so far
    bfDeaths,       \* FileBuffer alone: process deaths so far
    bfRun,          \* FileBuffer alone: "restarted" until the first flush
                    \*   after a process death returns
    bfSince,        \* messages written since the last flush or restart
    bfSurvive,      \* messages of the whole lines in the file at the death
    bfFlush,        \* what the flush call that has just returned saw and gave
    authRows,       \* rows of the table snmpv3_auth_failures
    authClock,      \* AuthFailureTracker alone: calls made so far
    authRecords,    \* username -> record_failure calls made so far
    authSince,      \* username -> record_failure calls since the last
                    \*   clear_failure of that username
    authOps,        \* username -> kind of the last call made for it
    authLast,       \* the tracker call that has just returned
    credentials_dict, \* SNMPListener.credentials_dict: username -> the
                    \*   credentials list of its SNMPv3CredentialSet
    usm,            \* username -> credentials added to the SNMP engine
    usmFrom,        \* credentials_dict as _setup_v3_credentials found it
    credLast,       \* the get_active_credentials call that has just returned
    maxsize,        \* asyncio.Queue.maxsize of the queue (0: no bound)
    sysSeen,        \* listeners alone: datagrams and traps handled so far
    sysDrops,       \* listeners alone: of these, dropped on a full queue
    sysLast,        \* listeners alone: the datagram or trap handled last
    valMsg,         \* Validator alone: the message handed to validate
    valCalls,       \* Validator alone: validate calls made so far
    valLast,        \* Validator alone: the validate call that has just returned
    mtLast,         \* PatternMatcher alone: the match call made last
    devRows,        \* rows of the table devices
    devClock,       \* DeviceRegistry alone: datetime.utcnow()
    devCalls,       \* DeviceRegistry alone: the update_device calls made
    startEnv,       \* start-up: the listeners the configuration enables
                    \*   and what will fail to start
    exitCode,       \* start-up: the argument of sys.exit, once called
    enMsg,          \* Enricher alone: the message handed to enrich
    enLast,         \* Enricher alone: the enrich call that has just returned
    cyIn,           \* buffer and store alone: the messages written
    cyOut,          \* buffer and store alone: flushed messages not yet stored
    cyRows,         \* buffer and store alone: id and metadata of stored rows
    lfRunning,      \* start and stop alone: MessageProcessor.running
    lfConnection,   \* start and stop alone: database.connection
    lfTasks,        \* start and stop alone: loop name -> unfinished tasks
    lfEvent,        \* start and stop alone: shutdown_event is set
    lfMain,         \* start and stop alone: where MUTTDaemon.main is
    lfStop,         \* start and stop alone: caller -> where its stop() is
    lfDone,         \* start and stop alone: times each shutdown step ran
    lfCalls,        \* start and stop alone: signals and calls made so far
    atSignal,       \* ids of the valid messages in the queue at the signal
    \* ------------------------------------------------ history (ghost) state
    written,        \* ids passed to FileBuffer.write
    returned,       \* id -> number of flush() calls that returned it
    dequeued,       \* ids process_loop took from the queue
    taskDone,       \* id -> number of queue.task_done() calls made for it
    storeCalls,     \* id -> number of store_message calls that returned
    raised,         \* ids for which a store_message call raised
    failed,         \* ids whose _process_message caught an exception
    routed,         \* ids for which MessageRouter.route was called
    pipeLog,        \* begin / end events of _process_message, in order
    shutdownLog,    \* shutdown steps, in order
    archiveLog      \* completed archive_old_messages calls that found rows

pipelineVars == <<nextId, queue, unfinished, listeners, plPc, plMsg>>
bufferVars   == <<memory, file, fileExists, writers, flushers>>
batchVars    == <<bwPc, bwBatch>>
archiveVars  == <<arPc, arCutoff, arRows, arFile, archiveFiles>>
dbVars       == <<dbMsgs, dbArchives, cmMsgs, cmArchives>>
daemonVars   == <<dPc, ffBatch>>
routerVars   == <<rules, handlers, rtRules, rtCalls, rtTasks, rtPc>>
ghostVars    == <<written, returned, dequeued, taskDone, storeCalls, raised,
                  failed, routed, pipeLog, shutdownLog, archiveLog>>
\* State of the components a step of the daemon's tasks leaves alone.
bufferUnit   == <<bfWrites, bfDeaths, bfRun, bfSince, bfSurvive, bfFlush>>
authUnit     == <<authRows, authClock, authRecords, authSince, authOps,
                  authLast>>
credUnit     == <<credentials_dict, usm, usmFrom, credLast>>
listenUnit   == <<maxsize, sysSeen, sysDrops, sysLast>>
validUnit    == <<valMsg, valCalls, valLast>>
deviceUnit   == <<devRows, devClock, devCalls>>
startUnit    == <<startEnv, exitCode>>
enrichUnit   == <<enMsg, enLast>>
carryUnit    == <<cyIn, cyOut, cyRows>>
lifeUnit     == <<lfRunning, lfConnection, lfTasks, lfEvent, lfMain, lfStop,
                 lfDone, lfCalls>>
lateVars     == <<enrichUnit, carryUnit, lifeUnit, atSignal>>
compVars     == <<credUnit, listenUnit, validUnit, mtLast, deviceUnit,
                 startUnit, lateVars>>
unitVars     == <<bufferUnit, authUnit, compVars>>
sideVars     == <<routerVars, unitVars>>
vars == <<now, retention_days, failures, sideVars, pipelineVars, bufferVars, batchVars,
          archiveVars, dbVars, daemonVars, ghostVars>>

\* ------------------------------------------------------------ data model
Ids == 1..MaxMsgs

\* Datagram source addresses and texts a listener can be handed.
SourceIps == {"", "10.0.0.1"}
Texts     == {"", "link down"}

Owners == {"process", "batch", "final"}   \* callers of FileBuffer methods

ActionTypes == {"store", "discard", "webhook"}

\* SNMPv3 user names and the hosts a failed authentication comes from.
Usernames == {"u1", "u2"}
Hostnames == {"h1", "h2"}

\* A member of the enumerations MessageType and Severity; the value of
\* every member is the text of its name.
Member(enum, name) == [enum |-> enum, name |-> name]
Value(member) == member.name

MessageTypes == {"SYSLOG", "SNMP_TRAP", "UNKNOWN"}
Severities == {"EMERGENCY", "ALERT", "CRITICAL", "ERROR", "WARNING",
               "NOTICE", "INFO", "DEBUG"}

\* MessageType(value), Severity(value): lookup of a member by value.
\* A value of no member raises ValueError, written here as NoMember.
NoMember == [enum |-> "ValueError", name |-> ""]
MessageType(value) ==
    IF value \in MessageTypes THEN Member("MessageType", value) ELSE NoMember
Severity(value) ==
    IF value \in Severities THEN Member("Severity", value) ELSE NoMember

\* A dict with text keys: a function on the set of its keys.
EmptyDict == [k \in {} |-> <<>>]
Put(d, key, v) ==
    [k \in DOMAIN d \cup {key} |-> IF k = key THEN v ELSE d[k]]

\* Message(source_ip, message_type, severity, payload): id, timestamp and
\* metadata come from the default factories (a fresh uuid4, the current
\* time, an empty dict).  Both listeners build their messages with
\* Severity.INFO (the syslog listener for a text without a header).
Message(id, ip, type, payload) ==
    [id |-> id, timestamp |-> now, source_ip |-> ip,
     message_type |-> Member("MessageType", type),
     severity |-> Member("Severity", "INFO"),
     payload |-> payload, metadata |-> EmptyDict]

\* SyslogListener._parse_syslog_message on a text without an RFC 3164
\* header: the whole text becomes the payload.
SyslogMessage(id, ip, text) == Message(id, ip, "SYSLOG", text)

\* SNMPListener.process_trap: the payload is f"SNMP Trap from {source_ip}".
SNMPTrap(id, ip) == Message(id, ip, "SNMP_TRAP", "SNMP Trap from " \o ip)

\* A validator that forgets the payload check.
ValidateNoPayloadCheck(msg) == msg.source_ip /= ""

\* A validator that forgets the source_ip check.
ValidateNoSourceCheck(msg) == msg.payload /= ""

\* Validator.validate: both source_ip and payload must be truthy.
Validate(msg) == msg.source_ip /= "" /\ msg.payload /= ""

\* A validator that reports only the first failing field.
ValidationErrorsFirstOnly(msg) ==
    IF msg.source_ip = "" THEN <<"Missing required field: source_ip">>
    ELSE IF msg.payload = "" THEN <<"Payload cannot be empty">> ELSE <<>>

\* The side effect of validate on a message: metadata["validation_errors"]
\* is created when missing and gains one text per failing field.
ValidationErrors(msg) ==
    (IF msg.source_ip = "" THEN <<"Missing required field: source_ip">>
                           ELSE <<>>)
    \o (IF msg.payload = "" THEN <<"Payload cannot be empty">> ELSE <<>>)
Validated(msg) ==
    [msg EXCEPT !.metadata =
        Put(@, "validation_errors",
            (IF "validation_errors" \in DOMAIN @
                THEN @["validation_errors"] ELSE <<>>)
            \o ValidationErrors(msg))]

IdsOf(seq) == {seq[i].id : i \in 1..Len(seq)}
Bump(f, ids) == [i \in DOMAIN f |-> IF i \in ids THEN f[i] + 1 ELSE f[i]]

\* queue.task_done() for the message in hand.
TaskDone(msg) ==
    /\ unfinished' = unfinished - 1
    /\ taskDone' = Bump(taskDone, {msg.id})

\* ------------------------------------------------------------------ Init
\* State after MUTTDaemon.main has created the queue and the processor:
\* empty queue, empty database, all tasks at their first suspension point.
\* Which listeners are open and where main stands is said by Running
\* (start-up over) or StartInit (start-up ahead).
\* The buffer directory is fresh, or holds the file an earlier run left
\* behind truncated.
Started ==
    /\ now = 0
    /\ retention_days \in 0..MaxRetention
    /\ nextId = 0
    /\ queue = <<>>
    /\ unfinished = 0
    /\ plPc = "get"
    /\ plMsg = <<>>
    /\ memory = <<>>
    /\ file = <<>>
    /\ fileExists \in BOOLEAN
    /\ writers = [o \in Owners |-> <<>>]
    /\ flushers = [o \in Owners |-> [st |-> "idle", lines |-> <<>>]]
    /\ bwPc = "sleep"
    /\ bwBatch = <<>>
    /\ arPc = "sleep"
    /\ arCutoff = 0
    /\ arRows = {}
    /\ arFile = 0
    /\ exitCode = "None"
    /\ enMsg = <<>>
    /\ enLast = [op |-> "none"]
    /\ cyIn = <<>>
    /\ cyOut = <<>>
    /\ cyRows = <<>>
    /\ lfRunning = FALSE
    /\ lfConnection = "None"
    /\ lfTasks = [name \in {"process_loop", "batch_write_loop",
                             "archive_loop"} |-> 0]
    /\ lfEvent = FALSE
    /\ lfMain = "starting"
    /\ lfStop = [caller \in {"main", "other"} |-> "idle"]
    /\ lfDone = [cancel |-> 0, flush |-> 0, close |-> 0]
    /\ lfCalls = [signal |-> 0, start |-> 0, stop |-> 0]
    /\ atSignal = {}
    /\ dbMsgs = {}
    /\ dbArchives = {}
    /\ cmMsgs = {}
    /\ cmArchives = {}
    /\ archiveFiles = {}
    /\ ffBatch = <<>>
    /\ failures = 0
    /\ rtRules = <<>>
    /\ rtCalls = <<>>
    /\ rtTasks = [a \in ActionTypes |-> "none"]
    /\ rtPc = "idle"
    /\ bfWrites = 0
    /\ bfDeaths = 0
    /\ bfRun = "fresh"
    /\ bfSince = <<>>
    /\ bfSurvive = <<>>
    /\ bfFlush = [done |-> FALSE]
    /\ authRows = {}
    /\ authClock = 0
    /\ authRecords = [u \in Usernames |-> 0]
    /\ authSince = [u \in Usernames |-> 0]
    /\ authOps = [u \in Usernames |-> "none"]
    /\ authLast = [op |-> "none"]
    /\ usm = [u \in Usernames |-> <<>>]
    /\ usmFrom = [done |-> FALSE]
    /\ credLast = [op |-> "none"]
    /\ sysSeen = 0
    /\ sysDrops = 0
    /\ sysLast = [op |-> "none"]
    /\ valCalls = 0
    /\ valLast = [op |-> "none"]
    /\ mtLast = [op |-> "none"]
    /\ devRows = {}
    /\ devClock = 0
    /\ devCalls = <<>>
    /\ written = {}
    /\ returned = [i \in Ids |-> 0]
    /\ dequeued = {}
    /\ taskDone = [i \in Ids |-> 0]
    /\ storeCalls = [i \in Ids |-> 0]
    /\ raised = {}
    /\ failed = {}
    /\ routed = {}
    /\ pipeLog = <<>>
    /\ shutdownLog = <<>>
    /\ archiveLog = {}

\* ------------------------------------------------------------- listeners
\* SyslogListener.process_data: decode, parse, queue.put_nowait.  The queue
\* is created without a maxsize, so put_nowait never raises QueueFull.
SyslogReceive ==
    /\ "syslog" \in listeners
    /\ nextId < MaxMsgs
    /\ \E ip \in SourceIps, text \in Texts :
          queue' = Append(queue, SyslogMessage(nextId + 1, ip, text))
    /\ nextId' = nextId + 1
    /\ unfinished' = unfinished + 1
    /\ UNCHANGED <<now, retention_days, sideVars, failures, listeners, plPc, plMsg,
                   bufferVars, batchVars, archiveVars, dbVars, daemonVars,
                   written, returned, dequeued, taskDone, storeCalls, raised, failed, routed,
                   pipeLog, shutdownLog, archiveLog>>

\* SNMPListener._cb_fun and the process_trap task it creates.
TrapReceive ==
    /\ "snmp" \in listeners
    /\ nextId < MaxMsgs
    /\ \E ip \in SourceIps \ {""} :
          queue' = Append(queue, SNMPTrap(nextId + 1, ip))
    /\ nextId' = nextId + 1
    /\ unfinished' = unfinished + 1
    /\ UNCHANGED <<now, retention_days, sideVars, failures, listeners, plPc, plMsg,
                   bufferVars, batchVars, archiveVars, dbVars, daemonVars,
                   written, returned, dequeued, taskDone, storeCalls, raised, failed, routed,
                   pipeLog, shutdownLog, archiveLog>>

\* ---------------------------------------------------- FileBuffer (loop side)
\* FileBuffer._flush_memory_to_disk up to its await: copy the lines, clear
\* the list, hand the copy to a worker thread.  o is the calling task.
StartWriteBatch(o) ==
    /\ writers' = [writers EXCEPT ![o] = memory]
    /\ memory' = <<>>

\* datetime.isoformat and datetime.fromisoformat.
Iso(t) == ToString(t)
FromIso(text) == CHOOSE t \in 0..MaxTime : Iso(t) = text

\* The JSON line FileBuffer.write builds for a message: the seven
\* persisted fields, the timestamp as ISO text and the two enumeration
\* members as their values.  json.dumps and json.loads keep a dict of
\* texts and lists of texts as it is.  whole is false for a line of which
\* only a part reached the file.
Line(msg) ==
    [id |-> msg.id, timestamp |-> Iso(msg.timestamp),
     source_ip |-> msg.source_ip,
     message_type |-> Value(msg.message_type),
     severity |-> Value(msg.severity),
     payload |-> msg.payload, metadata |-> msg.metadata, whole |-> TRUE]

\* The Message _flush_sync rebuilds from a line.
FromLine(line) ==
    [id |-> line.id, timestamp |-> FromIso(line.timestamp),
     source_ip |-> line.source_ip,
     message_type |-> MessageType(line.message_type),
     severity |-> Severity(line.severity),
     payload |-> line.payload, metadata |-> line.metadata]

\* A line parses when it is whole JSON and both enumeration lookups
\* succeed (json.JSONDecodeError, KeyError and ValueError are skipped).
WellFormed(line) ==
    /\ line.whole
    /\ line.message_type \in MessageTypes
    /\ line.severity \in Severities

\* The parsing loop of _flush_sync.
RECURSIVE ParseLines(_)
ParseLines(lines) ==
    IF lines = <<>> THEN <<>>
    ELSE (IF WellFormed(Head(lines)) THEN <<FromLine(Head(lines))>> ELSE <<>>)
            \o ParseLines(Tail(lines))

\* open(buffer_file, "a") and one write of the joined lines: when the file
\* ends in a part of a line (no newline), the first new line continues it.
AppendLines(f, lines) ==
    IF f /= <<>> /\ ~f[Len(f)].whole /\ lines /= <<>>
       THEN f \o Tail(lines)
       ELSE f \o lines

\* A write that hands the lines to the thread and clears the list only
\* after the thread has returned.
BufferWriteClearsLate(msg) ==
    /\ written' = written \cup {msg.id}
    /\ memory' = Append(memory, Line(msg))
    /\ IF Len(memory) + 1 >= FlushThreshold
          THEN writers' = [writers EXCEPT !["process"] =
                              Append(memory, Line(msg))]
          ELSE UNCHANGED writers

\* FileBuffer.write up to its first suspension (or its return).
BufferWrite(msg) ==
    /\ written' = written \cup {msg.id}
    /\ IF Len(memory) + 1 >= FlushThreshold
          THEN /\ writers' = [writers EXCEPT !["process"] =
                                 Append(memory, Line(msg))]
               /\ memory' = <<>>
          ELSE /\ memory' = Append(memory, Line(msg))
               /\ UNCHANGED writers

\* --------------------------------------------------------- PatternMatcher
\* str.lower, letter by letter.
LowerCase ==
    [A |-> "a", B |-> "b", C |-> "c", D |-> "d", E |-> "e", F |-> "f",
     G |-> "g", H |-> "h", I |-> "i", J |-> "j", K |-> "k", L |-> "l",
     M |-> "m", N |-> "n", O |-> "o", P |-> "p", Q |-> "q", R |-> "r",
     S |-> "s", T |-> "t", U |-> "u", V |-> "v", W |-> "w", X |-> "x",
     Y |-> "y", Z |-> "z"]
LowerChar(c) == IF c \in DOMAIN LowerCase THEN LowerCase[c] ELSE c
RECURSIVE Lower(_)
Lower(text) ==
    IF Len(text) = 0 THEN ""
    ELSE LowerChar(SubSeq(text, 1, 1)) \o Lower(SubSeq(text, 2, Len(text)))

\* needle in hay
Contains(hay, needle) ==
    \E i \in 1..(Len(hay) - Len(needle) + 1) :
        SubSeq(hay, i, i + Len(needle) - 1) = needle

\* An AlertRule as _load_rules builds it from one entry of the rules
\* file: the actions are kept as the list written in the file.
AlertRule(id, pattern_type, pattern, actions) ==
    [id |-> id, pattern_type |-> pattern_type, pattern |-> pattern,
     actions |-> actions, enabled |-> TRUE]

\* The regular expressions occurring in the rule sets are plain words,
\* except "(" which re.search refuses with re.error.
BadRegex(pattern) == pattern = "("

\* pattern.lower() in payload.lower(), and re.search(pattern, payload,
\* re.IGNORECASE) for a pattern that is a plain word.  The answers for
\* the payloads the listeners produce are worked out once.
Search(pattern, payload) == Contains(Lower(payload), Lower(pattern))
Payloads == Texts \cup {"SNMP Trap from " \o ip : ip \in SourceIps}
Patterns == {"DOWN", "trap"}
RECURSIVE Tabulate(_)
Tabulate(pairs) ==
    IF pairs = {} THEN <<>>
    ELSE LET pq == CHOOSE x \in pairs : TRUE
         IN  (pq :> Search(pq[1], pq[2])) @@ Tabulate(pairs \ {pq})
SearchTable == Tabulate(Patterns \X Payloads)
SearchIn(pattern, payload) ==
    IF pattern \in Patterns /\ payload \in Payloads
       THEN SearchTable[<<pattern, payload>>]
       ELSE Search(pattern, payload)

\* The first position from i on at which needle occurs in hay, 0 if none.
RECURSIVE FindFrom(_, _, _)
FindFrom(hay, needle, i) ==
    IF i + Len(needle) - 1 > Len(hay) THEN 0
    ELSE IF SubSeq(hay, i, i + Len(needle) - 1) = needle THEN i
    ELSE FindFrom(hay, needle, i + 1)

\* The literal parts of a regular expression made of words and ".*".
RECURSIVE Parts(_, _)
Parts(pattern, word) ==
    IF Len(pattern) = 0 THEN <<word>>
    ELSE IF Len(pattern) >= 2 /\ SubSeq(pattern, 1, 2) = ".*"
         THEN <<word>> \o Parts(SubSeq(pattern, 3, Len(pattern)), "")
         ELSE Parts(SubSeq(pattern, 2, Len(pattern)),
                    word \o SubSeq(pattern, 1, 1))

\* The parts occur in hay from position i on, in order, without overlap.
RECURSIVE InOrder(_, _, _)
InOrder(parts, hay, i) ==
    IF parts = <<>> THEN TRUE
    ELSE LET at == FindFrom(hay, Head(parts), i)
         IN at /= 0 /\ InOrder(Tail(parts), hay, at + Len(Head(parts)))

\* re.search(pattern, payload, re.IGNORECASE) for such an expression, on a
\* payload of one line.
ReSearch(pattern, payload) ==
    IF pattern \in Patterns THEN SearchIn(pattern, payload)
    ELSE InOrder(Parts(Lower(pattern), ""), Lower(payload), 1)

\* The test PatternMatcher.match applies to one rule.
Matches(rule, payload) ==
    /\ rule.enabled
    /\ rule.pattern /= ""
    /\ CASE rule.pattern_type = "regex" -> ReSearch(rule.pattern, payload)
         [] rule.pattern_type = "keyword" -> SearchIn(rule.pattern, payload)
         [] rule.pattern_type = "exact" -> rule.pattern = payload
         [] OTHER -> FALSE

\* PatternMatcher.match raises when it reaches an enabled rule whose
\* regular expression does not compile.
MatchRaises(msg) ==
    \E k \in 1..Len(rules) :
        /\ rules[k].enabled /\ rules[k].pattern /= ""
        /\ rules[k].pattern_type = "regex" /\ BadRegex(rules[k].pattern)

\* PatternMatcher.match: the matching rules, in the order of the rule list.
Match(msg) == SelectSeq(rules, LAMBDA r : Matches(r, msg.payload))

\* ---------------------------------------------------------- MessageRouter
\* The (action, rule) pairs in the order the two nested loops of route
\* visit them.
RECURSIVE Requests(_)
Requests(rs) ==
    IF rs = <<>> THEN <<>>
    ELSE [i \in 1..Len(Head(rs).actions) |->
             [action |-> Head(rs).actions[i], rule |-> Head(rs)]]
         \o Requests(Tail(rs))

\* Keys of rules_by_action in insertion order.
RECURSIVE KeyOrder(_, _)
KeyOrder(reqs, seen) ==
    IF reqs = <<>> THEN <<>>
    ELSE IF Head(reqs).action \in seen
            THEN KeyOrder(Tail(reqs), seen)
            ELSE <<Head(reqs).action>>
                 \o KeyOrder(Tail(reqs), seen \cup {Head(reqs).action})

\* rules_by_action[action]: one entry per append.
RulesFor(reqs, action) ==
    LET sel == SelectSeq(reqs, LAMBDA q : q.action = action)
    IN  [i \in 1..Len(sel) |-> sel[i].rule]

\* rules_by_action.items()
RulesByAction(rs) ==
    LET reqs == Requests(rs)
        keys == KeyOrder(reqs, {})
    IN  [i \in 1..Len(keys) |->
            [action |-> keys[i], rules |-> RulesFor(reqs, keys[i])]]

\* The handler calls route prepares: one per action that has a handler.
Invocations(rs) ==
    SelectSeq(RulesByAction(rs), LAMBDA e : handlers[e.action] /= "none")

\* MessageRouter.route up to its await (or its return): the handler
\* coroutines are created in order and handed to asyncio.gather.  A task
\* an earlier call left running goes on running.
RouteStart(rs) ==
    /\ rtRules' = rs
    /\ rtCalls' = Invocations(rtRules')
    /\ rtTasks' = [a \in ActionTypes |->
                      IF \E k \in 1..Len(rtCalls') : rtCalls'[k].action = a
                         THEN "pending"
                         ELSE IF rtTasks[a] = "pending" THEN "pending"
                                                        ELSE "none"]
    /\ rtPc' = IF rtCalls' = <<>> THEN "returned" ELSE "gather"

\* gather() hands its result to route once every handler task is done and
\* none has raised.
RouteReturns ==
    /\ rtPc = "gather"
    /\ \A a \in ActionTypes : rtTasks[a] \in {"none", "done"}
    /\ rtPc' = "returned"

\* gather() without return_exceptions: the first exception of a handler
\* task is raised in route at once; the other tasks are left running.
RouteRaises ==
    /\ rtPc = "gather"
    /\ \E a \in ActionTypes : rtTasks[a] = "raised"
    /\ rtPc' = "raised"

\* A handler task runs: it completes, or it raises.
HandlerRun(a) ==
    /\ rtTasks[a] = "pending"
    /\ rtTasks' = [rtTasks EXCEPT ![a] =
                      IF handlers[a] = "raises" THEN "raised" ELSE "done"]
    /\ UNCHANGED <<now, retention_days, failures, rules, handlers, rtRules,
                   rtCalls, rtPc, unitVars, pipelineVars, bufferVars,
                   batchVars, archiveVars, dbVars, daemonVars, ghostVars>>

\* ---------------------------------------------------------- process_loop
\* queue.get() returns; _process_message runs up to its first await:
\* validation, then rule matching, then the reverse-DNS lookup is handed
\* to a worker thread.  An invalid message returns at once and the loop
\* calls task_done; so does the handler of _process_message when the
\* matcher raises.
PLGet ==
    /\ plPc = "get"
    /\ queue /= <<>>
    /\ queue' = Tail(queue)
    /\ dequeued' = dequeued \cup {Head(queue).id}
    /\ IF Validate(Head(queue)) /\ ~MatchRaises(Head(queue))
          THEN /\ plPc' = "dns"
               /\ plMsg' = Validated(Head(queue))
               /\ pipeLog' = Append(pipeLog, <<"begin", Head(queue).id>>)
               /\ UNCHANGED <<unfinished, taskDone, failed>>
          ELSE /\ TaskDone(Head(queue))
               /\ pipeLog' = pipeLog \o <<<<"begin", Head(queue).id>>,
                                          <<"end", Head(queue).id>>>>
               /\ failed' = IF Validate(Head(queue))
                               THEN failed \cup {Head(queue).id} ELSE failed
               /\ UNCHANGED <<plPc, plMsg>>

ProcessGet ==
    /\ PLGet
    /\ UNCHANGED <<now, retention_days, sideVars, failures, nextId, listeners,
                   bufferVars, batchVars, archiveVars, dbVars, daemonVars,
                   written, returned, storeCalls, raised, routed,
                   shutdownLog, archiveLog>>

\* Enricher._reverse_dns_lookup returns (a name or None, never an
\* exception); DeviceRegistry.update_device is awaited next.
ProcessDns ==
    /\ plPc = "dns"
    /\ plPc' = "registry"
    /\ UNCHANGED <<now, retention_days, sideVars, failures, nextId, queue, unfinished,
                   listeners, plMsg, bufferVars, batchVars, archiveVars,
                   dbVars, daemonVars, ghostVars>>

\* connection.commit(): everything executed on the shared connection so
\* far becomes durable, whichever task executed it.
Commit ==
    /\ cmMsgs' = dbMsgs
    /\ cmArchives' = dbArchives
    /\ UNCHANGED <<dbMsgs, dbArchives>>

\* _process_message from FileBuffer.write on: the write suspends in its
\* threshold flush, or it returns, _process_message returns and the loop
\* calls task_done.
WriteAndFinish ==
    /\ BufferWrite(plMsg)
    /\ IF writers'["process"] /= <<>>
          THEN /\ plPc' = "write"
               /\ UNCHANGED <<plMsg, unfinished, taskDone, pipeLog>>
          ELSE /\ plPc' = "get"
               /\ plMsg' = <<>>
               /\ TaskDone(plMsg)
               /\ pipeLog' = Append(pipeLog, <<"end", plMsg.id>>)

\* update_device returns (upsert and commit on the shared connection);
\* severity normalisation and the call of MessageRouter.route follow
\* without suspending.  When route has no handler to call it returns at
\* once and FileBuffer.write follows; otherwise route awaits gather.
ProcessRegistry ==
    /\ plPc = "registry"
    /\ Commit
    /\ routed' = routed \cup {plMsg.id}
    /\ RouteStart(Match(plMsg))
    /\ IF rtPc' = "returned"
          THEN WriteAndFinish
          ELSE /\ plPc' = "route"
               /\ UNCHANGED <<plMsg, unfinished, taskDone, pipeLog, memory,
                              writers, written>>
    /\ UNCHANGED <<now, retention_days, unitVars, rules, handlers, failures, nextId,
                   queue, listeners, file, fileExists, flushers, batchVars,
                   archiveVars, daemonVars, returned, dequeued, storeCalls,
                   raised, failed, shutdownLog, archiveLog>>

\* route returns to _process_message, which goes on to FileBuffer.write.
ProcessRouteDone ==
    /\ plPc = "route"
    /\ RouteReturns
    /\ WriteAndFinish
    /\ UNCHANGED <<now, retention_days, unitVars, rules, handlers, rtRules, rtCalls,
                   rtTasks, failures, nextId, queue, listeners, file,
                   fileExists, flushers, batchVars, archiveVars, dbVars,
                   daemonVars, returned, dequeued, storeCalls, raised,
                   failed, routed, shutdownLog, archiveLog>>

\* The exception of a handler escapes _process_message and ends the loop.
ProcessRouteRaisedEndsLoop ==
    /\ plPc = "route"
    /\ RouteRaises
    /\ failed' = failed \cup {plMsg.id}
    /\ plPc' = "stopped"
    /\ plMsg' = <<>>
    /\ UNCHANGED <<now, retention_days, unitVars, rules, handlers, rtRules, rtCalls,
                   rtTasks, failures, nextId, queue, unfinished, listeners,
                   bufferVars, batchVars, archiveVars, dbVars, daemonVars,
                   written, returned, dequeued, taskDone, storeCalls, raised,
                   routed, pipeLog, shutdownLog, archiveLog>>

\* route raises the exception of a handler: the handler of
\* _process_message logs it, _process_message returns without having
\* called FileBuffer.write, and the loop calls task_done.
ProcessRouteRaised ==
    /\ plPc = "route"
    /\ RouteRaises
    /\ failed' = failed \cup {plMsg.id}
    /\ plPc' = "get"
    /\ plMsg' = <<>>
    /\ TaskDone(plMsg)
    /\ pipeLog' = Append(pipeLog, <<"end", plMsg.id>>)
    /\ UNCHANGED <<now, retention_days, unitVars, rules, handlers, rtRules, rtCalls,
                   rtTasks, failures, nextId, queue, listeners, bufferVars,
                   batchVars, archiveVars, dbVars, daemonVars, written,
                   returned, dequeued, storeCalls, raised, routed,
                   shutdownLog, archiveLog>>

\* The worker thread of write's threshold flush has finished: write
\* returns, _process_message returns, the loop calls task_done.
ProcessWriteDone ==
    /\ plPc = "write"
    /\ writers["process"] = <<>>
    /\ plPc' = "get"
    /\ plMsg' = <<>>
    /\ TaskDone(plMsg)
    /\ pipeLog' = Append(pipeLog, <<"end", plMsg.id>>)
    /\ UNCHANGED <<now, retention_days, sideVars, failures, nextId, queue, listeners,
                   bufferVars, batchVars, archiveVars, dbVars, daemonVars,
                   written, returned, dequeued, storeCalls, raised, failed, routed, shutdownLog,
                   archiveLog>>

\* ------------------------------------------------- FileBuffer (thread side)
\* _write_batch_sync: one append of all lines to the buffer file.
WriteBatchSync(o) ==
    /\ writers[o] /= <<>>
    /\ file' = AppendLines(file, writers[o])
    /\ fileExists' = TRUE
    /\ writers' = [writers EXCEPT ![o] = <<>>]
    /\ UNCHANGED <<now, retention_days, sideVars, failures, pipelineVars, memory,
                   flushers, batchVars, archiveVars, dbVars, daemonVars,
                   ghostVars>>

\* _flush_sync, first half: return at once when the file does not exist,
\* otherwise read every line of it.
FlushSyncRead(o) ==
    /\ flushers[o].st = "start"
    /\ flushers' = [flushers EXCEPT ![o] =
                      IF fileExists THEN [st |-> "read", lines |-> file]
                                    ELSE [st |-> "done", lines |-> <<>>]]
    /\ UNCHANGED <<now, retention_days, sideVars, failures, pipelineVars, memory, file,
                   fileExists, writers, batchVars, archiveVars, dbVars,
                   daemonVars, ghostVars>>

\* A _flush_sync that returns the parsed lines and leaves the file as it
\* is.
FlushSyncKeepsFile(o) ==
    /\ flushers[o].st = "read"
    /\ flushers' = [flushers EXCEPT ![o] =
                      [st |-> "done", lines |-> ParseLines(@.lines)]]
    /\ UNCHANGED <<now, retention_days, sideVars, failures, pipelineVars,
                   memory, file, fileExists, writers, batchVars,
                   archiveVars, dbVars, daemonVars, ghostVars>>

\* _flush_sync, second half: the lines are parsed into Messages, then the
\* file is reopened with mode "w" (truncated) and the list is returned.
FlushSyncTruncate(o) ==
    /\ flushers[o].st = "read"
    /\ file' = <<>>
    /\ flushers' = [flushers EXCEPT ![o] =
                      [st |-> "done", lines |-> ParseLines(@.lines)]]
    /\ UNCHANGED <<now, retention_days, sideVars, failures, pipelineVars, memory,
                   fileExists, writers, batchVars, archiveVars, dbVars,
                   daemonVars, ghostVars>>

\* FileBuffer.flush up to its first suspension: the memory lines go to a
\* writer thread, or, when there are none, _flush_sync is started at once.
\* Returns the caller's next suspension point through pc.
FlushBegin(o, pcMem, pcSync) ==
    IF memory /= <<>>
       THEN /\ StartWriteBatch(o)
            /\ UNCHANGED flushers
            /\ pcMem
       ELSE /\ flushers' = [flushers EXCEPT ![o] = [st |-> "start", lines |-> <<>>]]
            /\ UNCHANGED <<memory, writers>>
            /\ pcSync

\* FileBuffer.flush after _flush_memory_to_disk has returned.
FlushStartSync(o) ==
    /\ writers[o] = <<>>
    /\ flushers' = [flushers EXCEPT ![o] = [st |-> "start", lines |-> <<>>]]

\* FileBuffer.flush returns the list _flush_sync produced.
FlushReturn(o) ==
    /\ flushers[o].st = "done"
    /\ flushers' = [flushers EXCEPT ![o] = [st |-> "idle", lines |-> <<>>]]
    /\ returned' = Bump(returned, IdsOf(flushers[o].lines))

\* ------------------------------------------------------------------ Store
\* The messages row store_message inserts for a message.
Row(msg) == [id |-> msg.id, timestamp |-> msg.timestamp,
             source_ip |-> msg.source_ip, type |-> Value(msg.message_type),
             payload |-> msg.payload]

\* Database.store_message up to its commit: the INSERT is executed on the
\* shared connection.
\* The id column is the primary key: a second row with the same id is refused.
HasRow(msg) == \E r \in dbMsgs : r.id = msg.id
StoreInsert(msg) ==
    /\ ~HasRow(msg)
    /\ dbMsgs' = dbMsgs \cup {Row(msg)}
    /\ UNCHANGED <<dbArchives, cmMsgs, cmArchives>>

\* store_message raises: the INSERT violates the primary key, or the
\* database refuses it for a reason of its own (locked, disk full).
StoreRaises(msg) ==
    /\ HasRow(msg) \/ failures < MaxStoreFailures
    /\ failures' = failures + 1
    /\ raised' = raised \cup {msg.id}

\* ------------------------------------------------------- batch_write_loop
\* asyncio.sleep(flush_interval) returns and flush() is called.
BatchWake ==
    /\ bwPc = "sleep"
    /\ FlushBegin("batch", bwPc' = "flushmem", bwPc' = "flushsync")
    /\ UNCHANGED <<now, retention_days, sideVars, failures, pipelineVars, file,
                   fileExists, bwBatch, archiveVars, dbVars, daemonVars,
                   ghostVars>>

BatchMemDone ==
    /\ bwPc = "flushmem"
    /\ FlushStartSync("batch")
    /\ bwPc' = "flushsync"
    /\ UNCHANGED <<now, retention_days, sideVars, failures, pipelineVars, memory, file,
                   fileExists, writers, bwBatch, archiveVars, dbVars,
                   daemonVars, ghostVars>>

\* flush() returns: an empty list sends the loop back to sleep, otherwise
\* store_message is awaited for the first message.
BatchFlushDone ==
    /\ bwPc = "flushsync"
    /\ FlushReturn("batch")
    /\ bwBatch' = flushers["batch"].lines
    /\ bwPc' = IF flushers["batch"].lines = <<>> THEN "sleep" ELSE "insert"
    /\ UNCHANGED <<now, retention_days, sideVars, failures, pipelineVars, memory, file,
                   fileExists, writers, archiveVars, dbVars, daemonVars,
                   written, dequeued, taskDone, storeCalls, raised, failed, routed, pipeLog,
                   shutdownLog, archiveLog>>

\* store_message's INSERT has been executed; the commit is awaited next.
BatchInsert ==
    /\ bwPc = "insert"
    /\ StoreInsert(Head(bwBatch))
    /\ bwPc' = "commit"
    /\ UNCHANGED <<now, retention_days, sideVars, failures, pipelineVars, bufferVars,
                   bwBatch, archiveVars, daemonVars, ghostVars>>

\* store_message raises (the INSERT fails): the exception leaves the for
\* loop, is logged by the handler around the loop body, and the loop goes
\* back to sleep.
BatchInsertRaises ==
    /\ bwPc = "insert"
    /\ StoreRaises(Head(bwBatch))
    /\ bwBatch' = <<>>
    /\ bwPc' = "sleep"
    /\ UNCHANGED <<now, retention_days, sideVars, pipelineVars, bufferVars,
                   archiveVars, dbVars, daemonVars, written, returned, dequeued,
                   taskDone, storeCalls, failed, routed, pipeLog, shutdownLog,
                   archiveLog>>

\* store_message's commit returns; the for loop moves to the next message.
BatchCommit ==
    /\ bwPc = "commit"
    /\ Commit
    /\ storeCalls' = Bump(storeCalls, {Head(bwBatch).id})
    /\ bwBatch' = Tail(bwBatch)
    /\ bwPc' = IF Tail(bwBatch) = <<>> THEN "sleep" ELSE "insert"
    /\ UNCHANGED <<now, retention_days, sideVars, failures, pipelineVars, bufferVars,
                   archiveVars, daemonVars, written, returned, dequeued,
                   taskDone, raised, failed, routed, pipeLog, shutdownLog, archiveLog>>

\* ----------------------------------------------------------- archive_loop
Min(S) == CHOOSE x \in S : \A y \in S : x <= y
Max(S) == CHOOSE x \in S : \A y \in S : x >= y

\* Rows in the order of "ORDER BY timestamp ASC" (ties in id order).
RECURSIVE SortRows(_)
SortRows(rows) ==
    IF rows = {} THEN <<>>
    ELSE LET first == CHOOSE r \in rows : \A q \in rows :
                         \/ r.timestamp < q.timestamp
                         \/ r.timestamp = q.timestamp /\ r.id <= q.id
         IN  <<first>> \o SortRows(rows \ {first})

OlderThan(cutoff) == {r \in dbMsgs : r.timestamp < cutoff}

\* asyncio.sleep(24h) returns; archive_old_messages computes the cutoff
\* and awaits the SELECT.
ArchiveWake ==
    /\ arPc = "sleep"
    /\ now < MaxTime
    /\ now' = now + 1
    /\ arCutoff' = now' - retention_days
    /\ arPc' = "select"
    /\ UNCHANGED <<retention_days, sideVars, failures, pipelineVars, bufferVars,
                   batchVars, arRows, arFile, archiveFiles, dbVars,
                   daemonVars, ghostVars>>

\* An archive run that writes its file and goes on to the DELETE also when
\* the SELECT found nothing.
ArchiveSelectWritesAlways ==
    /\ arPc = "select"
    /\ arRows' = OlderThan(arCutoff)
    /\ arFile' = now
    /\ archiveFiles' = archiveFiles \cup
          {[filename |-> now, lines |-> SortRows(OlderThan(arCutoff))]}
    /\ arPc' = "delete"
    /\ UNCHANGED <<now, retention_days, sideVars, failures, pipelineVars, bufferVars,
                   batchVars, arCutoff, dbVars, daemonVars, ghostVars>>

\* The SELECT returns.  No rows: the call returns.  Otherwise the archive
\* file is written in full and the DELETE is awaited.
ArchiveSelect ==
    /\ arPc = "select"
    /\ IF OlderThan(arCutoff) = {}
          THEN /\ arPc' = "sleep"
               /\ UNCHANGED <<arRows, arFile, archiveFiles>>
          ELSE /\ arRows' = OlderThan(arCutoff)
               /\ arFile' = now
               /\ archiveFiles' = archiveFiles \cup
                     {[filename |-> now, lines |-> SortRows(OlderThan(arCutoff))]}
               /\ arPc' = "delete"
    /\ UNCHANGED <<now, retention_days, sideVars, failures, pipelineVars, bufferVars,
                   batchVars, arCutoff, dbVars, daemonVars, ghostVars>>

\* The SELECT raises (the database refuses it): archive_old_messages
\* raises, archive_loop logs the error and sleeps again.
ArchiveSelectRaises ==
    /\ arPc = "select"
    /\ failures < MaxStoreFailures
    /\ failures' = failures + 1
    /\ arPc' = "sleep"
    /\ UNCHANGED <<now, retention_days, sideVars, pipelineVars, bufferVars,
                   batchVars, arCutoff, arRows, arFile, archiveFiles, dbVars,
                   daemonVars, ghostVars>>

\* DELETE FROM messages WHERE timestamp < cutoff has been executed.
ArchiveDelete ==
    /\ arPc = "delete"
    /\ dbMsgs' = dbMsgs \ OlderThan(arCutoff)
    /\ arPc' = "insert"
    /\ UNCHANGED <<now, retention_days, sideVars, failures, pipelineVars, bufferVars,
                   batchVars, arCutoff, arRows, arFile, archiveFiles,
                   dbArchives, cmMsgs, cmArchives, daemonVars, ghostVars>>

\* INSERT INTO archives has been executed.
ArchiveInsert ==
    /\ arPc = "insert"
    /\ dbArchives' = dbArchives \cup
          {[filename |-> arFile,
            start_date |-> Min({r.timestamp : r \in arRows}),
            end_date |-> Max({r.timestamp : r \in arRows}),
            record_count |-> Cardinality(arRows)]}
    /\ arPc' = "commit"
    /\ UNCHANGED <<now, retention_days, sideVars, failures, pipelineVars, bufferVars,
                   batchVars, arCutoff, arRows, arFile, archiveFiles,
                   dbMsgs, cmMsgs, cmArchives, daemonVars, ghostVars>>

\* The final commit returns and with it archive_old_messages.
ArchiveCommit ==
    /\ arPc = "commit"
    /\ Commit
    /\ arPc' = "sleep"
    /\ arRows' = {}
    /\ archiveLog' = archiveLog \cup {[filename |-> arFile, cutoff |-> arCutoff]}
    /\ UNCHANGED <<now, retention_days, sideVars, failures, pipelineVars, bufferVars,
                   batchVars, arCutoff, arFile, archiveFiles, daemonVars,
                   written, returned, dequeued, taskDone, storeCalls, raised, failed, routed,
                   pipeLog, shutdownLog>>

\* ----------------------------------------------------------------- daemon
\* SIGINT / SIGTERM: the signal handler sets shutdown_event.
Signal ==
    /\ dPc = "running"
    /\ dPc' = "signalled"
    /\ shutdownLog' = Append(shutdownLog, "event_set")
    /\ UNCHANGED <<now, retention_days, sideVars, failures, pipelineVars, bufferVars,
                   batchVars, archiveVars, dbVars, ffBatch, written,
                   returned, dequeued, taskDone, storeCalls, raised, failed, routed, pipeLog,
                   archiveLog>>

\* main() resumes and runs shutdown(): every listener is stopped, then
\* MessageProcessor.stop clears running, cancels the three tasks and awaits
\* them.  A cancelled task leaves its loop at the await it is suspended in;
\* worker threads it started keep running.
\* A shutdown that cancels the tasks while the listeners are still open.
ShutdownListenersLeftOpen ==
    /\ dPc = "signalled"
    /\ plPc' = "stopped"
    /\ plMsg' = <<>>
    /\ bwPc' = "stopped"
    /\ bwBatch' = <<>>
    /\ arPc' = "stopped"
    /\ arRows' = {}
    /\ dPc' = "gather"
    /\ shutdownLog' = Append(shutdownLog, "tasks_cancelled")
    /\ UNCHANGED <<now, retention_days, sideVars, failures, nextId, queue, unfinished,
                   listeners, bufferVars, arCutoff, arFile, archiveFiles,
                   dbVars, ffBatch, written, returned, dequeued, taskDone,
                   storeCalls, raised, failed, routed, pipeLog, archiveLog>>

Shutdown ==
    /\ dPc = "signalled"
    /\ listeners' = {}
    /\ plPc' = "stopped"
    /\ plMsg' = <<>>
    /\ bwPc' = "stopped"
    /\ bwBatch' = <<>>
    /\ arPc' = "stopped"
    /\ arRows' = {}
    /\ dPc' = "gather"
    /\ shutdownLog' = shutdownLog \o <<"listeners_stopped", "tasks_cancelled">>
    /\ UNCHANGED <<now, retention_days, sideVars, failures, nextId, queue, unfinished,
                   bufferVars, arCutoff, arFile, archiveFiles, dbVars,
                   ffBatch, written, returned, dequeued, taskDone,
                   storeCalls, raised, failed, routed, pipeLog, archiveLog>>

\* gather() returns; _final_flush calls flush().
FinalFlushBegin ==
    /\ dPc = "gather"
    /\ FlushBegin("final", dPc' = "ff_flushmem", dPc' = "ff_flushsync")
    /\ shutdownLog' = Append(shutdownLog, "final_flush")
    /\ UNCHANGED <<now, retention_days, sideVars, failures, pipelineVars, file,
                   fileExists, batchVars, archiveVars, dbVars, ffBatch,
                   written, returned, dequeued, taskDone, storeCalls, raised, failed, routed,
                   pipeLog, archiveLog>>

FinalMemDone ==
    /\ dPc = "ff_flushmem"
    /\ FlushStartSync("final")
    /\ dPc' = "ff_flushsync"
    /\ UNCHANGED <<now, retention_days, sideVars, failures, pipelineVars, memory, file,
                   fileExists, writers, batchVars, archiveVars, dbVars,
                   ffBatch, ghostVars>>

FinalFlushDone ==
    /\ dPc = "ff_flushsync"
    /\ FlushReturn("final")
    /\ ffBatch' = flushers["final"].lines
    /\ dPc' = IF flushers["final"].lines = <<>> THEN "close" ELSE "ff_insert"
    /\ UNCHANGED <<now, retention_days, sideVars, failures, pipelineVars, memory, file,
                   fileExists, writers, batchVars, archiveVars, dbVars,
                   written, dequeued, taskDone, storeCalls, raised, failed, routed, pipeLog,
                   shutdownLog, archiveLog>>

FinalInsert ==
    /\ dPc = "ff_insert"
    /\ StoreInsert(Head(ffBatch))
    /\ dPc' = "ff_commit"
    /\ UNCHANGED <<now, retention_days, sideVars, failures, pipelineVars, bufferVars,
                   batchVars, archiveVars, ffBatch, ghostVars>>

\* store_message raises inside _final_flush: the handler around the whole
\* method logs it and _final_flush returns.
FinalInsertRaises ==
    /\ dPc = "ff_insert"
    /\ StoreRaises(Head(ffBatch))
    /\ ffBatch' = <<>>
    /\ dPc' = "close"
    /\ UNCHANGED <<now, retention_days, sideVars, pipelineVars, bufferVars,
                   batchVars, archiveVars, dbVars, written, returned, dequeued,
                   taskDone, storeCalls, failed, routed, pipeLog, shutdownLog,
                   archiveLog>>

FinalCommit ==
    /\ dPc = "ff_commit"
    /\ Commit
    /\ storeCalls' = Bump(storeCalls, {Head(ffBatch).id})
    /\ ffBatch' = Tail(ffBatch)
    /\ dPc' = IF Tail(ffBatch) = <<>> THEN "close" ELSE "ff_insert"
    /\ UNCHANGED <<now, retention_days, sideVars, failures, pipelineVars, bufferVars,
                   batchVars, archiveVars, written, returned, dequeued,
                   taskDone, raised, failed, routed, pipeLog, shutdownLog, archiveLog>>

\* connection.close(): what was executed but never committed is rolled back.
Close ==
    /\ dPc = "close"
    /\ dbMsgs' = cmMsgs
    /\ dbArchives' = cmArchives
    /\ dPc' = "done"
    /\ shutdownLog' = Append(shutdownLog, "store_closed")
    /\ UNCHANGED <<now, retention_days, sideVars, failures, pipelineVars, bufferVars,
                   batchVars, archiveVars, cmMsgs, cmArchives, ffBatch,
                   written, returned, dequeued, taskDone, storeCalls, raised, failed, routed,
                   pipeLog, archiveLog>>

\* The process dies (SIGKILL, power loss): tasks, threads, queue and memory
\* buffer are gone; the database keeps what was committed and the buffer
\* file what was appended.
Crash ==
    /\ dPc \notin {"done", "crashed"}
    /\ dPc' = "crashed"
    /\ listeners' = {}
    /\ queue' = <<>>
    /\ plPc' = "stopped"
    /\ plMsg' = <<>>
    /\ bwPc' = "stopped"
    /\ bwBatch' = <<>>
    /\ arPc' = "stopped"
    /\ arRows' = {}
    /\ ffBatch' = <<>>
    /\ memory' = <<>>
    /\ writers' = [o \in Owners |-> <<>>]
    /\ flushers' = [o \in Owners |-> [st |-> "idle", lines |-> <<>>]]
    /\ dbMsgs' = cmMsgs
    /\ dbArchives' = cmArchives
    /\ UNCHANGED <<now, retention_days, sideVars, failures, nextId, unfinished, file,
                   fileExists, arCutoff, arFile, archiveFiles, cmMsgs,
                   cmArchives, ghostVars>>

\* ------------------------------------------------------------------- Init
\* MessageRouter(): no handler is registered.
NoHandlers == [a \in ActionTypes |-> "none"]

\* MUTTDaemon._start_listeners constructs the SNMP listener without
\* credentials_dict: the listener's dict is empty.
NoCredentials == credentials_dict = [u \in Usernames |-> <<>>]

\* What the daemon's own construction fixes of the components' inputs.
\* MUTTDaemon.main creates the queue as asyncio.Queue(): no bound.
Unbounded == maxsize = 0

\* No message is in the hands of a Validator used on its own.
NoneInHand == valMsg = <<>>

\* MUTTDaemon.main after a start-up in which nothing failed: both
\* listeners are enabled and open, main waits for the shutdown event.
Running ==
    /\ startEnv = [enabled |-> {"syslog", "snmp"}, fails |-> {},
                   processor |-> "ok"]
    /\ listeners = {"syslog", "snmp"}
    /\ dPc = "running"

AsDaemonBuilds == NoCredentials /\ Unbounded /\ NoneInHand /\ Running

\* The daemon as MUTTDaemon.main builds it, started without a rules file:
\* no rule is loaded and nothing registers a handler.
Init ==
    /\ Started
    /\ AsDaemonBuilds
    /\ rules = <<>>
    /\ handlers = NoHandlers

\* Rule files and handler registrations of a processor that is given both.
\* The keyword rule matches the syslog text and lists two actions, the
\* second rule matches the payload of a trap, the third does not compile.
\* The webhook handler raises, the discard handler returns.
KeywordRule == AlertRule("r1", "keyword", "DOWN", <<"webhook", "discard">>)
TrapRule    == AlertRule("r2", "regex", "trap", <<"discard">>)
BrokenRule  == AlertRule("r3", "regex", "(", <<"store">>)
Configs ==
    {[rules |-> <<KeywordRule, TrapRule>>,
      handlers |-> [NoHandlers EXCEPT !["webhook"] = "raises",
                                      !["discard"] = "ok"]],
     [rules |-> <<BrokenRule>>, handlers |-> NoHandlers]}

\* Such a processor, started on a fresh buffer directory.
FaultInit ==
    /\ Started
    /\ AsDaemonBuilds
    /\ ~fileExists
    /\ \E c \in Configs : rules = c.rules /\ handlers = c.handlers

\* ------------------------------------------------------------------- Next
Listen  == SyslogReceive \/ TrapReceive
Process == ProcessGet \/ ProcessDns \/ ProcessRegistry \/ ProcessWriteDone
Threads == \E o \in Owners :
              WriteBatchSync(o) \/ FlushSyncRead(o) \/ FlushSyncTruncate(o)
Batch   == BatchWake \/ BatchMemDone \/ BatchFlushDone \/ BatchInsert
              \/ BatchCommit
Archive == ArchiveWake \/ ArchiveSelect \/ ArchiveDelete \/ ArchiveInsert
              \/ ArchiveCommit
Final   == Signal \/ Shutdown \/ FinalFlushBegin \/ FinalMemDone
              \/ FinalFlushDone \/ FinalInsert \/ FinalCommit \/ Close

Next == Listen \/ Process \/ Threads \/ Batch \/ Archive \/ Final
           \/ BatchInsertRaises \/ FinalInsertRaises \/ Crash

Spec == Init /\ [][Next]_vars

\* A run in which no shutdown is signalled, the process does not die and
\* every store_message succeeds.
NextRun == Listen \/ Process \/ Threads \/ Batch \/ Archive
RunSpec == Init /\ [][NextRun]_vars

\* The event loop schedules every ready task and the pool runs every
\* submitted thread; datagram arrival is up to the senders.
LiveSpec ==
    /\ RunSpec
    /\ WF_vars(Process) /\ WF_vars(Batch) /\ WF_vars(Archive)
    /\ \A o \in Owners : /\ WF_vars(WriteBatchSync(o))
                         /\ WF_vars(FlushSyncRead(o))
                         /\ WF_vars(FlushSyncTruncate(o))

\* A run of a processor with rules and handlers in which no shutdown is
\* signalled and the process does not die, but handlers, the matcher and
\* the database may raise.
Route     == ProcessRouteDone \/ ProcessRouteRaised
Handlers  == \E a \in ActionTypes : HandlerRun(a)
NextFault == Listen \/ Process \/ Route \/ Handlers \/ Threads \/ Batch
                \/ Archive \/ BatchInsertRaises \/ ArchiveSelectRaises
FaultSpec == FaultInit /\ [][NextFault]_vars

\* The event loop runs every ready task, handler tasks included, and the
\* pool runs the thread of every caller (a caller has one thread at a
\* time).
ThreadStep(o) ==
    WriteBatchSync(o) \/ FlushSyncRead(o) \/ FlushSyncTruncate(o)
FaultLiveSpec ==
    /\ FaultSpec
    /\ WF_vars(Process) /\ WF_vars(Route) /\ WF_vars(Handlers)
    /\ WF_vars(Batch) /\ WF_vars(Archive)
    /\ \A o \in Owners : WF_vars(ThreadStep(o))

\* ================================================================ claims
Range(seq) == {seq[i] : i \in 1..Len(seq)}

\* C1: every message held in the FileBuffer (memory list or buffer file) or
\* stored in the messages table (as seen through the connection or as
\* committed) has a non-empty source_ip and a non-empty payload, i.e. it
\* passed Validator.validate.
C1_OnlyValidPersisted ==
    \A m \in Range(memory) \cup Range(file) \cup dbMsgs \cup cmMsgs :
        m.source_ip /= "" /\ m.payload /= ""

\* C1 witness: an invalid message was dequeued and dropped while a valid one
\* went through the buffer into the committed messages table.
C1_Witness ==
    /\ cmMsgs /= {}
    /\ \E i \in dequeued : i \notin written /\ taskDone[i] = 1

\* Ids of the lines the FileBuffer currently holds: in the memory list, in a
\* batch on its way to the file, in the file, or read by a flush that has
\* not yet returned them.
Held ==
    IdsOf(memory) \cup IdsOf(file)
       \cup UNION {IdsOf(writers[o]) : o \in Owners}
       \cup UNION {IdsOf(flushers[o].lines) : o \in Owners}

\* C2: (no shutdown, no crash, no failing insert, fair scheduling) every
\* valid message a listener has put on the queue is eventually stored by a
\* store_message call.
C2_EventuallyStored ==
    \A i \in Ids :
        (\E k \in 1..Len(queue) : queue[k].id = i /\ Validate(queue[k]))
            ~> (storeCalls[i] > 0)

\* C3: every message passed to FileBuffer.write is either still held by the
\* buffer and returned by no flush yet, or held no longer and returned by
\* exactly one flush call.
C3_EveryLineReturnedOnce ==
    \A i \in written :
        \/ i \in Held /\ returned[i] = 0
        \/ i \notin Held /\ returned[i] = 1

\* Ids of the rows the Store holds durably: committed in messages, or moved
\* by the archiver into an archive file.
Stored ==
    {r.id : r \in cmMsgs}
       \cup UNION {IdsOf(f.lines) : f \in archiveFiles}

\* C4: once a graceful shutdown has completed without a failing insert, the
\* memory list and the buffer file are empty and every message that was
\* written to the FileBuffer is in the Store.
C4_ShutdownLosesNothing ==
    (dPc = "done" /\ failures = 0) =>
        /\ memory = <<>>
        /\ file = <<>>
        /\ written \subseteq Stored

\* C5 as claimed: shutdown event, task cancellation, final flush, listener
\* stop, Store close, in this order.
C5_ClaimedOrder ==
    dPc = "done" =>
        shutdownLog = <<"event_set", "tasks_cancelled", "final_flush",
                        "listeners_stopped", "store_closed">>

\* The order the steps are taken in.
ShutdownOrder == <<"event_set", "listeners_stopped", "tasks_cancelled",
                   "final_flush", "store_closed">>

\* C5 amended: the steps occur in the order shutdown event, listener stop,
\* task cancellation, final flush, Store close.  While the final flush runs
\* and when the Store is closed no listener is open and no task runs; the
\* Store is closed only after the final flush has handed back its thread
\* and its batch.
C5_ShutdownOrder ==
    /\ Len(shutdownLog) <= Len(ShutdownOrder)
    /\ shutdownLog = SubSeq(ShutdownOrder, 1, Len(shutdownLog))
    /\ dPc = "done" => shutdownLog = ShutdownOrder
    /\ dPc \in {"gather", "ff_flushmem", "ff_flushsync", "ff_insert",
                "ff_commit", "close", "done"} =>
          /\ listeners = {}
          /\ plPc = "stopped" /\ bwPc = "stopped" /\ arPc = "stopped"
    /\ dPc \in {"close", "done"} =>
          /\ flushers["final"].st = "idle"
          /\ ffBatch = <<>>

\* C5 witness: a shutdown has completed whose final flush stored a message.
C5_Witness ==
    /\ dPc = "done"
    /\ \E i \in Ids : returned[i] = 1 /\ storeCalls[i] = 1 /\ bwPc = "stopped"
    /\ cmMsgs /= {}

\* C6: task_done is never called twice for a message, and whenever
\* process_loop is between two messages or has been stopped, it has been
\* called once for every message the loop dequeued.
C6_TaskDoneOnce ==
    /\ \A i \in Ids : taskDone[i] <= 1
    /\ (plPc \in {"get", "stopped"} /\ dPc /= "crashed") =>
          \A i \in dequeued : taskDone[i] = 1

\* Position of an event in the pipeline log (0 when absent).
LogPos(e) ==
    IF \E k \in 1..Len(pipeLog) : pipeLog[k] = e
       THEN CHOOSE k \in 1..Len(pipeLog) : pipeLog[k] = e
       ELSE 0

\* The buffer in flush order: the file, then the memory list.
BufferLines == file \o memory

\* C7: of two messages enqueued by one listener, the earlier one has left
\* the pipeline before the later one enters it, and its line comes first
\* in the buffer.
C7_ListenerOrder ==
    \A k1, k2 \in 1..Len(BufferLines) :
        (/\ BufferLines[k1].message_type = BufferLines[k2].message_type
         /\ BufferLines[k1].id < BufferLines[k2].id) =>
            /\ k1 < k2
            /\ LogPos(<<"end", BufferLines[k1].id>>) > 0
            /\ LogPos(<<"end", BufferLines[k1].id>>)
                  < LogPos(<<"begin", BufferLines[k2].id>>)

\* C10: when batch_write_loop has finished a batch, every message a flush
\* returned has been stored, except those whose own store_message raised.
C10_OnlyFailingRowSkipped ==
    bwPc = "sleep" =>
        \A i \in Ids : returned[i] > 0 => (storeCalls[i] > 0 \/ i \in raised)

\* The archive file and the archives row of the call that is completing.
FileOf(name)  == CHOOSE f \in archiveFiles : f.filename = name
IndexOf(name) == CHOOSE a \in dbArchives : a.filename = name

\* What C8 promises of the state in which archive_old_messages returns.
ArchivePost ==
    /\ \A r \in dbMsgs : ~(r.timestamp < arCutoff)
    /\ \E a \in dbArchives : a.filename = arFile
    /\ Len(FileOf(arFile).lines) = IndexOf(arFile).record_count
    /\ \A k \in 1..Len(FileOf(arFile).lines) :
          FileOf(arFile).lines[k] \notin dbMsgs

\* C8: when a call of archive_old_messages that found rows returns (its
\* commit returns), no messages row is older than the call's cutoff, the
\* archive file has record_count lines and no archived row is in messages.
C8_ArchivePostcondition ==
    [][(arPc = "commit" /\ arPc' = "sleep") => ArchivePost']_vars

\* C9: the committed messages table loses rows only in a commit that also
\* makes the index row of the archive holding them durable: in no
\* committed state are archived rows gone while their archives row is
\* missing.
C9_DeleteAndIndexAtomic ==
    [][(\E r \in cmMsgs : r \notin cmMsgs') =>
          (\E a \in cmArchives' : a.filename = arFile)]_vars

\* C11: (no shutdown, fair scheduling; handlers, the matcher and the
\* database may raise) none of the three loops ever stops; every message
\* on the queue, whatever happened to the messages before it, is
\* eventually dequeued and its pipeline run to the end; batch_write_loop
\* and archive_loop come back to their sleep again and again.
C11_LoopsSurvive ==
    /\ [](plPc /= "stopped" /\ bwPc /= "stopped" /\ arPc /= "stopped")
    /\ \A i \in Ids :
          (\E k \in 1..Len(queue) : queue[k].id = i) ~> (taskDone[i] = 1)
    /\ []<>(bwPc = "sleep")
    /\ []<>(arPc = "sleep")

\* C11 witness: the pipeline of one message raised, and a message enqueued
\* after it was processed, buffered and stored.
C11_Witness ==
    \E i \in failed, j \in written :
        i < j /\ taskDone[j] = 1 /\ storeCalls[j] = 1

\* C12: every message for which route was called has, once its pipeline
\* has ended, been written to the FileBuffer.
C12_RoutedIsBuffered ==
    \A i \in routed : taskDone[i] = 1 => i \in written

\* ------------------------------------------------ MessageRouter on its own
\* route called with any of a few rule lists, on a router with any
\* registration of handlers.  A rule of the rules file may list an action
\* more than once: _load_rules keeps the list as written.
RepeatRule == AlertRule("r4", "exact", "link down", <<"store", "store">>)
RuleLists ==
    {<<>>, <<KeywordRule>>, <<KeywordRule, TrapRule>>,
     <<TrapRule, KeywordRule>>, <<RepeatRule>>, <<KeywordRule, RepeatRule>>}
HandlerKinds == {"none", "ok", "raises"}
daemonState == <<now, retention_days, failures, pipelineVars, bufferVars,
                 batchVars, archiveVars, dbVars, daemonVars, ghostVars>>
routerRest == <<daemonState, unitVars>>

RouterInit ==
    /\ Started
    /\ AsDaemonBuilds
    /\ rules = <<>>
    /\ handlers \in [ActionTypes -> HandlerKinds]

\* await router.route(msg, rs), by a caller that is not inside route.
RouteCall ==
    /\ rtPc \in {"idle", "returned", "raised"}
    /\ \E rs \in RuleLists : RouteStart(rs)
    /\ UNCHANGED <<rules, handlers, routerRest>>

RouteReturn ==
    /\ RouteReturns
    /\ UNCHANGED <<rules, handlers, rtRules, rtCalls, rtTasks, routerRest>>

RouteRaise ==
    /\ RouteRaises
    /\ UNCHANGED <<rules, handlers, rtRules, rtCalls, rtTasks, routerRest>>

NextRouter == RouteCall \/ RouteReturn \/ RouteRaise \/ Handlers
RouterSpec == RouterInit /\ [][NextRouter]_vars

\* C13: a handler that raises does not abort the batch: route is never
\* left by the exception, and when it is left every handler task it
\* handed to gather has run to its end.
C13_RouteAwaitsAll ==
    /\ rtPc /= "raised"
    /\ rtPc = "returned" => \A a \in ActionTypes : rtTasks[a] /= "pending"

\* The rules of a list that list an action, in the order of the list.
Listing(rs, a) ==
    SelectSeq(rs, LAMBDA r : \E i \in 1..Len(r.actions) : r.actions[i] = a)

\* C14: route invokes the handler of each action that has one and is
\* listed by a rule exactly once, with exactly the rules listing the
\* action, each once and in rule order, and invokes no other handler.
C14_OneCallPerAction ==
    rtPc /= "idle" =>
        /\ \A a \in ActionTypes :
              Cardinality({k \in 1..Len(rtCalls) : rtCalls[k].action = a})
                 = IF handlers[a] /= "none" /\ Listing(rtRules, a) /= <<>>
                      THEN 1 ELSE 0
        /\ \A k \in 1..Len(rtCalls) :
              rtCalls[k].rules = Listing(rtRules, rtCalls[k].action)

\* --------------------------------------------------- FileBuffer on its own
\* One caller makes whole calls of write and flush, one after the other;
\* the process may die between two calls or inside the append of
\* _write_batch_sync, and is then started again on the same directory.
BufferTimes == 0..1
BufferMessages(id) ==
    {[m EXCEPT !.timestamp = t] :
        t \in BufferTimes,
        m \in {Validated(SyslogMessage(id, "10.0.0.1", "link down")),
               [Validated(SNMPTrap(id, "10.0.0.1")) EXCEPT
                   !.severity = Member("Severity", "ERROR"),
                   !.metadata = Put(@, "hostname", "router1")]}}
bufferRest == <<now, retention_days, failures, routerVars, pipelineVars,
                writers, flushers, batchVars, archiveVars, dbVars,
                daemonVars, ghostVars, authUnit, compVars>>

\* The part of a line that reached the file when the process died.
Torn(line) == [line EXCEPT !.whole = FALSE]

\* The file after an append of lines that the death of the process cut
\* short inside line k + 1.
CutAppend(f, lines, k) ==
    AppendLines(f, SubSeq(lines, 1, k) \o <<Torn(lines[k + 1])>>)

\* A new process on the directory the dead one left.
Restart ==
    /\ memory' = <<>>
    /\ bfDeaths' = bfDeaths + 1
    /\ bfRun' = "restarted"
    /\ bfSince' = <<>>
    /\ bfSurvive' = ParseLines(file')
    /\ bfFlush' = [done |-> FALSE]
    /\ UNCHANGED <<bfWrites, bufferRest>>

\* await buffer.write(m)
BufWrite ==
    /\ bfWrites < MaxWrites
    /\ \E m \in BufferMessages(bfWrites + 1) :
          /\ IF Len(memory) + 1 >= FlushThreshold
                THEN /\ file' = AppendLines(file, Append(memory, Line(m)))
                     /\ fileExists' = TRUE
                     /\ memory' = <<>>
                ELSE /\ memory' = Append(memory, Line(m))
                     /\ UNCHANGED <<file, fileExists>>
          /\ bfSince' = Append(bfSince, m)
    /\ bfWrites' = bfWrites + 1
    /\ bfFlush' = [done |-> FALSE]
    /\ UNCHANGED <<bfDeaths, bfRun, bfSurvive, bufferRest>>

\* messages = await buffer.flush()
BufFlush ==
    /\ file' = <<>>
    /\ memory' = <<>>
    /\ fileExists' = (fileExists \/ memory /= <<>>)
    /\ bfFlush' = [done |-> TRUE,
                   out |-> IF fileExists'
                              THEN ParseLines(IF memory = <<>> THEN file
                                              ELSE AppendLines(file, memory))
                              ELSE <<>>,
                   held |-> ParseLines(file \o memory),
                   since |-> bfSince, survive |-> bfSurvive, run |-> bfRun]
    /\ bfRun' = "running"
    /\ bfSince' = <<>>
    /\ bfSurvive' = <<>>
    /\ UNCHANGED <<bfWrites, bfDeaths, bufferRest>>

\* The process dies between two calls: the lines in memory are gone.
BufDie ==
    /\ bfDeaths < MaxDeaths
    /\ UNCHANGED <<file, fileExists>>
    /\ Restart

\* The process dies inside the append of a write that reached the
\* threshold.
BufWriteDies ==
    /\ bfDeaths < MaxDeaths
    /\ bfWrites < MaxWrites
    /\ Len(memory) + 1 >= FlushThreshold
    /\ \E m \in BufferMessages(bfWrites + 1), k \in 0..Len(memory) :
          file' = CutAppend(file, Append(memory, Line(m)), k)
    /\ fileExists' = TRUE
    /\ Restart

\* The process dies inside the append of a flush, or after it (before or
\* after the truncation).
BufFlushDies ==
    /\ bfDeaths < MaxDeaths
    /\ memory /= <<>>
    /\ \/ \E k \in 0..(Len(memory) - 1) : file' = CutAppend(file, memory, k)
       \/ file' = AppendLines(file, memory)
       \/ file' = <<>>
    /\ fileExists' = TRUE
    /\ Restart

NextBuffer == BufWrite \/ BufFlush \/ BufDie \/ BufWriteDies \/ BufFlushDies
BufferInit == Init
BufferSpec == BufferInit /\ [][NextBuffer]_vars

\* C15: the flush that follows write(m) returns a list containing a
\* Message equal to m in the seven persisted fields.
C15_RoundTrip ==
    bfFlush.done =>
        \A k \in 1..Len(bfFlush.since) :
            \E j \in 1..Len(bfFlush.out) : bfFlush.out[j] = bfFlush.since[k]

\* C16: flush returns, in the order written, one Message for every
\* well-formed line held in the file or in memory, and leaves both empty.
C16_FlushReturnsAll ==
    bfFlush.done =>
        /\ bfFlush.out = bfFlush.held
        /\ memory = <<>>
        /\ file = <<>>

\* C17: the first flush after a restart returns every line that was
\* whole in the file when the process died, and the partial last line
\* takes no other line with it: the lines written since the restart are
\* returned as well.
C17_CrashSafety ==
    (bfFlush.done /\ bfFlush.run = "restarted") =>
        bfFlush.out = bfFlush.survive \o bfFlush.since

\* ------------------------------------------------------ stored at most once
\* Number of store_message calls made for a message: those that returned
\* and the one that raised.
StoreAttempts(i) == storeCalls[i] + (IF i \in raised THEN 1 ELSE 0)

authRest == <<daemonState, routerVars, bufferUnit, compVars>>

\* The rows of a username (the column is UNIQUE: at most one).
RowsOf(rows, u) == {r \in rows : r.username = u}

\* INSERT OR REPLACE in the place of the upsert: the count starts again.
UpsertReplaces(rows, u, h, t) ==
    {r \in rows : r.username /= u}
        \cup {[username |-> u, hostname |-> h, num_failures |-> 1,
               last_failure |-> t]}

\* INSERT ... VALUES (?, ?, ?, 1, ?) ON CONFLICT(username) DO UPDATE SET
\* num_failures = num_failures + 1, last_failure, hostname.
Upsert(rows, u, h, t) ==
    IF RowsOf(rows, u) = {}
       THEN rows \cup {[username |-> u, hostname |-> h, num_failures |-> 1,
                        last_failure |-> t]}
       ELSE {IF r.username = u
                THEN [r EXCEPT !.num_failures = @ + 1, !.last_failure = t,
                               !.hostname = h]
                ELSE r : r \in rows}

\* DELETE FROM snmpv3_auth_failures, the WHERE clause left out.
DeleteAll(rows, u) == {}

\* DELETE FROM snmpv3_auth_failures WHERE username = ?
Delete(rows, u) == {r \in rows : r.username /= u}

\* get_all_failures: the rows ordered by num_failures DESC, last_failure
\* DESC.
RECURSIVE GetAll(_)
GetAll(rows) ==
    IF rows = {} THEN <<>>
    ELSE LET first == CHOOSE r \in rows : \A q \in rows :
                         \/ r.num_failures > q.num_failures
                         \/ /\ r.num_failures = q.num_failures
                            /\ r.last_failure >= q.last_failure
         IN  <<first>> \o GetAll(rows \ {first})

\* await tracker.record_failure(u, h)
RecordFailure(u, h) ==
    /\ authClock < MaxAuthCalls
    /\ authClock' = authClock + 1
    /\ authRows' = Upsert(authRows, u, h, authClock')
    /\ authRecords' = [authRecords EXCEPT ![u] = @ + 1]
    /\ authSince' = [authSince EXCEPT ![u] = @ + 1]
    /\ authOps' = [authOps EXCEPT ![u] = "record"]
    /\ authLast' = [op |-> "record", username |-> u, hostname |-> h,
                    before |-> authRows, previous |-> authOps[u]]
    /\ UNCHANGED authRest

\* await tracker.clear_failure(u)
ClearFailure(u) ==
    /\ authClock < MaxAuthCalls
    /\ authClock' = authClock + 1
    /\ authRows' = Delete(authRows, u)
    /\ authSince' = [authSince EXCEPT ![u] = 0]
    /\ authOps' = [authOps EXCEPT ![u] = "clear"]
    /\ authLast' = [op |-> "clear", username |-> u, hostname |-> "",
                    before |-> authRows, previous |-> authOps[u]]
    /\ UNCHANGED <<authRecords, authRest>>

Record == \E u \in Usernames, h \in Hostnames : RecordFailure(u, h)
Clear  == \E u \in Usernames : ClearFailure(u)
NextAuth == Record \/ Clear
AuthInit == Init
AuthSpec == AuthInit /\ [][NextAuth]_vars

\* The rows get_all_failures returns for a username.
Listed(u) ==
    SelectSeq(GetAll(authRows), LAMBDA r : r.username = u)

\* C19 as stated: after record(u, h), get_all has exactly one row for u,
\* with num_failures = number of prior record(u, *) calls + 1 and
\* hostname = h.
C19_CountsAllRecords ==
    authLast.op = "record" =>
        /\ Len(Listed(authLast.username)) = 1
        /\ Listed(authLast.username)[1].num_failures
              = authRecords[authLast.username]
        /\ Listed(authLast.username)[1].hostname = authLast.hostname

\* C19: after record(u, h), get_all has exactly one row for u, with
\* num_failures = number of record(u, *) calls made since the last
\* clear(u) before this one, plus one, and hostname = h.
C19_CountsRecordsSinceClear ==
    authLast.op = "record" =>
        /\ Len(Listed(authLast.username)) = 1
        /\ Listed(authLast.username)[1].num_failures
              = authSince[authLast.username]
        /\ Listed(authLast.username)[1].hostname = authLast.hostname

\* C19 witness: a record call has returned for a user with an earlier
\* row (from another host) and a clear further back.
C19_Witness ==
    /\ authLast.op = "record"
    /\ authSince[authLast.username] = 2
    /\ authRecords[authLast.username] = 3
    /\ \E r \in RowsOf(authLast.before, authLast.username) :
          r.hostname /= authLast.hostname

\* C20: clear(u) removes the row of u and leaves every other row as it
\* was, whether u had a row or not; a record(u, h) that follows clear(u)
\* gives u a row with num_failures = 1 and hostname = h.
C20_ClearRemovesOnlyUser ==
    /\ authLast.op = "clear" =>
          /\ RowsOf(authRows, authLast.username) = {}
          /\ \A v \in Usernames \ {authLast.username} :
                RowsOf(authRows, v) = RowsOf(authLast.before, v)
          /\ RowsOf(authLast.before, authLast.username) = {}
                => authRows = authLast.before
    /\ (authLast.op = "record" /\ authLast.previous = "clear") =>
          \E r \in authRows :
              /\ r.username = authLast.username
              /\ r.num_failures = 1
              /\ r.hostname = authLast.hostname

\* C20 witness: clear(u) has returned for a user that had a row with
\* several failures, while another user has a row.
C20_Witness ==
    /\ authLast.op = "clear"
    /\ \E r \in RowsOf(authLast.before, authLast.username) :
          r.num_failures >= 2
    /\ authRows /= {}

\* ------------------------------------- SNMP listener and the tracker
\* The tracker calls of AuthSpec, and SNMPv3 traps of the same users
\* that the engine decodes and hands to the listener's callback.
trapRest == <<now, retention_days, failures, routerVars, bufferUnit,
              listeners, plPc, plMsg, bufferVars, batchVars, archiveVars,
              dbVars, daemonVars, ghostVars, compVars>>

\* _cb_fun for a decoded trap of user u from address ip, and the
\* process_trap task it creates: the trap is built and enqueued.  The
\* security name is not read and no method of the tracker is called.
TrapDecoded(u, ip) ==
    /\ "snmp" \in listeners
    /\ nextId < MaxMsgs
    /\ queue' = Append(queue, SNMPTrap(nextId + 1, ip))
    /\ nextId' = nextId + 1
    /\ unfinished' = unfinished + 1
    /\ authLast' = [op |-> "trap", username |-> u, hostname |-> ip,
                    before |-> authRows, previous |-> authOps[u]]
    /\ UNCHANGED <<authRows, authClock, authRecords, authSince, authOps,
                   trapRest>>

Trap == \E u \in Usernames, ip \in SourceIps \ {""} : TrapDecoded(u, ip)
NextTrapAuth == Record \/ Clear \/ Trap
TrapAuthSpec == AuthInit /\ [][NextTrapAuth]_vars

\* C21: once a successfully decoded SNMPv3 trap of user u has been
\* processed by the listener, the Store holds no auth-failure row for u.
C21_TrapClearsFailures ==
    authLast.op = "trap" => RowsOf(authRows, authLast.username) = {}

\* ------------------------------------------------- SNMPv3 credential sets
\* SNMPv3Credential: the fields the credential set and the listener read.
SNMPv3Credential(priority, auth_password, active) ==
    [priority |-> priority, auth_password |-> auth_password,
     active |-> active]

\* sorted(list, key=priority): a stable sort, each element placed behind
\* the elements before it whose priority is not larger.
RECURSIVE SortedByPriority(_)
SortedByPriority(creds) ==
    IF creds = <<>> THEN <<>>
    ELSE LET head == SortedByPriority(SubSeq(creds, 1, Len(creds) - 1))
             c == creds[Len(creds)]
             k == Cardinality({i \in 1..Len(head) :
                                 head[i].priority <= c.priority})
         IN SubSeq(head, 1, k) \o <<c>> \o SubSeq(head, k + 1, Len(head))

\* A get_active_credentials that forgets to sort.
GetActiveCredentialsUnsorted(creds) == SelectSeq(creds, LAMBDA c : c.active)

\* SNMPv3CredentialSet.get_active_credentials: a new list of the active
\* credentials, sorted by priority.
GetActiveCredentials(creds) ==
    SortedByPriority(SelectSeq(creds, LAMBDA c : c.active))

\* A _setup_v3_credentials that registers every active credential.
RegisteredAll(creds) == GetActiveCredentials(creds)

\* _setup_v3_credentials for one username: nothing when the active view is
\* empty, else _add_user_to_engine with its first element.
Registered(creds) ==
    LET active_creds == GetActiveCredentials(creds)
    IN IF active_creds = <<>> THEN <<>> ELSE <<active_creds[1]>>

\* Credential files: a set in rotation for u1 only, and sets listed out of
\* priority order, with two credentials of one priority, for both users.
Rotation == <<SNMPv3Credential(1, "old", TRUE),
              SNMPv3Credential(2, "new", FALSE)>>
CredentialDicts ==
    {[u \in Usernames |-> IF u = "u1" THEN Rotation ELSE <<>>],
     [u \in Usernames |->
        IF u = "u1" THEN <<SNMPv3Credential(3, "c", TRUE),
                           SNMPv3Credential(1, "a", TRUE),
                           SNMPv3Credential(1, "b", TRUE)>>
                    ELSE <<SNMPv3Credential(2, "e", TRUE),
                           SNMPv3Credential(1, "d", FALSE)>>]}

credRest == <<daemonState, routerVars, bufferUnit, authUnit, listenUnit,
              validUnit, mtLast, deviceUnit, startUnit, lateVars>>

\* cred.active = flag, on credential i of the set of username u.
SetActive(u, i, flag) ==
    /\ i \in 1..Len(credentials_dict[u])
    /\ credentials_dict[u][i].active /= flag
    /\ credentials_dict' =
           [credentials_dict EXCEPT ![u][i].active = flag]
    /\ UNCHANGED <<usm, usmFrom, credLast, credRest>>

\* credentials_dict[u].get_active_credentials(): the list comprehension and
\* sorted() build new lists, the set's own list is not assigned.
GetActive(u) ==
    /\ credLast' = [op |-> "get", username |-> u,
                    before |-> credentials_dict[u],
                    result |-> GetActiveCredentials(credentials_dict[u]),
                    after |-> credentials_dict[u]]
    /\ UNCHANGED <<credentials_dict, usm, usmFrom, credRest>>

\* SNMPListener._setup_v3_credentials, called once by start().
SetupV3Credentials ==
    /\ ~usmFrom.done
    /\ usm' = [u \in Usernames |-> usm[u] \o Registered(credentials_dict[u])]
    /\ usmFrom' = [done |-> TRUE, dict |-> credentials_dict]
    /\ UNCHANGED <<credentials_dict, credLast, credRest>>

Flip == \E u \in Usernames, i \in 1..3, flag \in BOOLEAN : SetActive(u, i, flag)
GetCall == \E u \in Usernames : GetActive(u)
NextCred == Flip \/ GetCall \/ SetupV3Credentials
CredInit ==
    /\ Started
    /\ Running
    /\ Unbounded
    /\ NoneInHand
    /\ rules = <<>>
    /\ handlers = NoHandlers
    /\ credentials_dict \in CredentialDicts
CredSpec == CredInit /\ [][NextCred]_vars

\* C22: a get_active_credentials call returns exactly the credentials of
\* the set whose active flag is true, in ascending order of priority, and
\* leaves the set's list as it was.
C22_ActiveSortedByPriority ==
    credLast.op = "get" =>
        LET before == credLast.before
            result == credLast.result
            active == {i \in 1..Len(before) : before[i].active}
        IN /\ Len(result) = Cardinality(active)
           /\ \A i \in active : \E k \in 1..Len(result) : result[k] = before[i]
           /\ \A k \in 1..Len(result) :
                 \E i \in active : result[k] = before[i]
           /\ \A k \in 1..Len(result) - 1 :
                 result[k].priority <= result[k + 1].priority
           /\ credLast.after = before

\* The rotation set after both flags were flipped gives the one credential
\* of priority 2.
C22_Witness ==
    /\ credLast.op = "get"
    /\ credLast.before = <<SNMPv3Credential(1, "old", FALSE),
                           SNMPv3Credential(2, "new", TRUE)>>
    /\ credLast.result = <<SNMPv3Credential(2, "new", TRUE)>>

Digits == {"0", "1", "2", "3", "4", "5", "6", "7", "8", "9"}
WordChars ==
    DOMAIN LowerCase \cup {LowerCase[c] : c \in DOMAIN LowerCase}
        \cup Digits \cup {"_"}
Spaces == {" "}
HostChars == WordChars \cup {".", "-"}

\* text[i - 1], or nothing past either end.
Char(text, i) ==
    IF i >= 1 /\ i <= Len(text) THEN SubSeq(text, i, i) ELSE ""

\* Where a greedy run of the characters of a class that starts at i ends:
\* the first position from i on whose character is not of the class.
RECURSIVE SpanEnd(_, _, _)
SpanEnd(text, i, class) ==
    IF Char(text, i) \in class THEN SpanEnd(text, i + 1, class) ELSE i

\* Where the run [^:]+ that starts at i ends.
RECURSIVE ColonFrom(_, _)
ColonFrom(text, i) ==
    IF i > Len(text) \/ Char(text, i) = ":" THEN i
    ELSE ColonFrom(text, i + 1)

\* str.strip(): white space removed at both ends.
RECURSIVE Strip(_)
Strip(text) ==
    IF Char(text, 1) \in Spaces THEN Strip(SubSeq(text, 2, Len(text)))
    ELSE IF Char(text, Len(text)) \in Spaces
         THEN Strip(SubSeq(text, 1, Len(text) - 1))
         ELSE text

\* int(priority_str) of a run of decimal digits.
DigitSeq == <<"0", "1", "2", "3", "4", "5", "6", "7", "8", "9">>
DigitValue(c) == (CHOOSE k \in 1..10 : DigitSeq[k] = c) - 1
RECURSIVE ToInt(_)
ToInt(digits) ==
    IF Len(digits) = 0 THEN 0
    ELSE 10 * ToInt(SubSeq(digits, 1, Len(digits) - 1))
         + DigitValue(SubSeq(digits, Len(digits), Len(digits)))

\* SYSLOG_REGEX.match(text):
\*   <(\d+)>(\w{3}\s+\d+\s+\d+:\d+:\d+)\s+([\w\.-]+)\s+([^:]+):\s*(.*)
\* matched from the start of the text, each run greedy.  No run can give
\* characters back to the next one except the white space before a
\* process name that is itself white space, which no datagram below has.
NoMatch == [matched |-> FALSE]
SyslogRegexMatch(text) ==
    LET pri == SpanEnd(text, 2, Digits)        \* the ">" of <PRI>
        mon == pri + 1                         \* \w{3}
        day == SpanEnd(text, mon + 3, Spaces)
        s1  == SpanEnd(text, day, Digits)
        hh  == SpanEnd(text, s1, Spaces)
        c1  == SpanEnd(text, hh, Digits)       \* ":"
        c2  == SpanEnd(text, c1 + 1, Digits)   \* ":"
        s2  == SpanEnd(text, c2 + 1, Digits)
        hn  == SpanEnd(text, s2, Spaces)
        s3  == SpanEnd(text, hn, HostChars)
        pn  == SpanEnd(text, s3, Spaces)
        c3  == ColonFrom(text, pn)             \* ":"
        pl  == SpanEnd(text, c3 + 1, Spaces)
    IN IF /\ Char(text, 1) = "<" /\ pri > 2 /\ Char(text, pri) = ">"
          /\ \A k \in mon..(mon + 2) : Char(text, k) \in WordChars
          /\ day > mon + 3 /\ s1 > day /\ hh > s1
          /\ c1 > hh /\ Char(text, c1) = ":"
          /\ c2 > c1 + 1 /\ Char(text, c2) = ":"
          /\ s2 > c2 + 1 /\ hn > s2 /\ s3 > hn /\ pn > s3
          /\ c3 > pn /\ Char(text, c3) = ":"
       THEN [matched |-> TRUE,
             priority_str |-> SubSeq(text, 2, pri - 1),
             timestamp |-> SubSeq(text, mon, s2 - 1),
             hostname |-> SubSeq(text, hn, s3 - 1),
             process_name |-> SubSeq(text, pn, c3 - 1),
             payload |-> SubSeq(text, pl, Len(text))]
       ELSE NoMatch

\* SEVERITY_MAP.get(severity_num, Severity.INFO)
SEVERITY_MAP ==
    <<"EMERGENCY", "ALERT", "CRITICAL", "ERROR", "WARNING", "NOTICE",
      "INFO", "DEBUG">>
SeverityOfNumber(severity_num) ==
    IF severity_num \in 0..7
       THEN Member("Severity", SEVERITY_MAP[severity_num + 1])
       ELSE Member("Severity", "INFO")

\* The fields SyslogMessage adds to Message; process_id keeps its default.
WithSyslogFields(msg, facility, priority, hostname, process_name) ==
    [id |-> msg.id, timestamp |-> msg.timestamp,
     source_ip |-> msg.source_ip, message_type |-> msg.message_type,
     severity |-> msg.severity, payload |-> msg.payload,
     metadata |-> msg.metadata,
     facility |-> facility, priority |-> priority, hostname |-> hostname,
     process_name |-> process_name, process_id |-> "None"]

\* A parser that takes the severity from the facility.
ParseSyslogMessageByFacility(id, text, source_ip) ==
    LET match == SyslogRegexMatch(text)
        priority == ToInt(match.priority_str)
    IN IF match.matched
       THEN WithSyslogFields(
                [Message(id, source_ip, "SYSLOG", match.payload)
                    EXCEPT !.severity = SeverityOfNumber(priority \div 8)],
                priority \div 8, priority, match.hostname,
                match.process_name)
       ELSE WithSyslogFields(Message(id, source_ip, "SYSLOG", text),
                             1, 13, "unknown", "unknown")

\* SyslogListener._parse_syslog_message(text, source_ip).
ParseSyslogMessage(id, text, source_ip) ==
    LET match == SyslogRegexMatch(text)
        priority == ToInt(match.priority_str)
    IN IF match.matched
       THEN WithSyslogFields(
                [Message(id, source_ip, "SYSLOG", match.payload)
                    EXCEPT !.severity = SeverityOfNumber(priority % 8)],
                priority \div 8, priority, match.hostname,
                match.process_name)
       ELSE WithSyslogFields(Message(id, source_ip, "SYSLOG", text),
                             1, 13, "unknown", "unknown")

\* Datagrams: an optional <PRI>, an optional rest of the RFC 3164 header
\* (time stamp, host name, tag) and a body, as decoded from UTF-8.
NoPri == -1
Pris == {NoPri, 11, 134, 191, 999}
Header == "Jan 09 20:30:00 myhost myproc: "
Bodies == {"", "link down "}
Datagrams == [pri : Pris, header : BOOLEAN, body : Bodies]
Text(d) ==
    (IF d.pri = NoPri THEN "" ELSE "<" \o ToString(d.pri) \o ">")
        \o (IF d.header THEN Header ELSE "") \o d.body

\* The sender's address as the transport gives it: (host, port) on an
\* IPv4 socket, (host, port, flowinfo, scope_id) on an IPv6 socket.
Addrs == {<<"10.0.0.1", 514>>, <<"fe80::1", 514, 0, 0>>}

\* queue.full()
Full == maxsize > 0 /\ Len(queue) >= maxsize

listenRest == <<now, retention_days, failures, routerVars, bufferUnit,
                authUnit, credUnit, validUnit, mtLast, deviceUnit, startUnit,
                lateVars,
                listeners, plPc, plMsg,
                bufferVars,
                batchVars, archiveVars, dbVars, daemonVars, ghostVars>>

\* SyslogListener.process_data(data, addr), data decoding to Text(d).
\* Unpacking an address of four parts into two names raises ValueError
\* and put_nowait on a full queue raises QueueFull: both are caught by
\* the except branch, which logs and returns.
ProcessData(d, addr) ==
    /\ "syslog" \in listeners
    /\ sysSeen < MaxDatagrams
    /\ sysSeen' = sysSeen + 1
    /\ IF Len(addr) /= 2
          THEN UNCHANGED <<nextId, queue, unfinished, sysDrops>>
          ELSE /\ nextId' = nextId + 1
               /\ IF Full
                     THEN /\ sysDrops' = sysDrops + 1
                          /\ UNCHANGED <<queue, unfinished>>
                     ELSE /\ queue' = Append(queue,
                                 ParseSyslogMessage(nextId', Strip(Text(d)),
                                                    addr[1]))
                          /\ unfinished' = unfinished + 1
                          /\ UNCHANGED sysDrops
    /\ sysLast' = [op |-> "syslog", datagram |-> d, addr |-> addr,
                   full |-> Full, before |-> queue, after |-> queue']
    /\ UNCHANGED <<maxsize, listenRest>>

\* SNMPListener.process_trap for a trap from address ip: put_nowait on a
\* full queue raises QueueFull, which the except branch logs.
ProcessTrap(ip) ==
    /\ "snmp" \in listeners
    /\ sysSeen < MaxDatagrams
    /\ sysSeen' = sysSeen + 1
    /\ nextId' = nextId + 1
    /\ IF Full
          THEN /\ sysDrops' = sysDrops + 1
               /\ UNCHANGED <<queue, unfinished>>
          ELSE /\ queue' = Append(queue, SNMPTrap(nextId', ip))
               /\ unfinished' = unfinished + 1
               /\ UNCHANGED sysDrops
    /\ sysLast' = [op |-> "trap", full |-> Full, before |-> queue,
                   after |-> queue']
    /\ UNCHANGED <<maxsize, listenRest>>

\* await queue.get() by the consumer of the queue.
QueueGet ==
    /\ queue /= <<>>
    /\ queue' = Tail(queue)
    /\ UNCHANGED <<nextId, unfinished, listenUnit, listenRest>>

Datagram == \E d \in Datagrams, addr \in Addrs : ProcessData(d, addr)
TrapData == \E ip \in SourceIps \ {""} : ProcessTrap(ip)
NextListen == Datagram \/ TrapData \/ QueueGet
\* Listeners constructed on the daemon's queue, or on a queue of one place.
ListenInit ==
    /\ Started
    /\ Running
    /\ rules = <<>>
    /\ handlers = NoHandlers
    /\ NoCredentials
    /\ NoneInHand
    /\ maxsize \in {0, 1}
ListenSpec == ListenInit /\ [][NextListen]_vars

\* The message the datagram handled last put on the queue, if it put one.
Enqueued == Len(sysLast.after) = Len(sysLast.before) + 1
Emitted == sysLast.after[Len(sysLast.after)]
SeverityNumber ==
    [EMERGENCY |-> 0, ALERT |-> 1, CRITICAL |-> 2, ERROR |-> 3,
     WARNING |-> 4, NOTICE |-> 5, INFO |-> 6, DEBUG |-> 7]
PriFields(pri) ==
    /\ Emitted.priority = pri
    /\ Emitted.facility = pri \div 8
    /\ SeverityNumber[Emitted.severity.name] = pri % 8

\* C24 as stated: the message emitted for a datagram that starts with a
\* well-formed <PRI> has priority PRI, facility PRI div 8 and the severity
\* numbered PRI mod 8.
C24_PriGivesFacilityAndSeverity ==
    (sysLast.op = "syslog" /\ Enqueued /\ sysLast.datagram.pri \in 0..191)
        => PriFields(sysLast.datagram.pri)

\* C24: the message emitted for a datagram whose text has the whole header
\* <PRI>TIMESTAMP HOSTNAME TAG: has priority PRI, facility PRI div 8 and
\* the severity numbered PRI mod 8.
C24_HeaderGivesFacilityAndSeverity ==
    (sysLast.op = "syslog" /\ Enqueued /\ sysLast.datagram.pri \in 0..191
        /\ sysLast.datagram.header)
        => PriFields(sysLast.datagram.pri)

C24_Witness ==
    /\ sysLast.op = "syslog"
    /\ Enqueued
    /\ sysLast.datagram = [pri |-> 191, header |-> TRUE, body |-> "link down "]
    /\ Emitted.facility = 23
    /\ Emitted.severity = Member("Severity", "DEBUG")
    /\ Emitted.hostname = "myhost"
    /\ Emitted.process_name = "myproc"
    /\ Emitted.payload = "link down"

\* C25: a datagram whose text fails the header parse, arriving when the
\* queue has room, puts exactly one SyslogMessage on the queue, with the
\* stripped text as payload and the default fields.
C25_FallbackNeverDrops ==
    (/\ sysLast.op = "syslog"
     /\ ~sysLast.full
     /\ (sysLast.datagram.pri = NoPri \/ ~sysLast.datagram.header))
        => /\ Enqueued
           /\ SubSeq(sysLast.after, 1, Len(sysLast.before)) = sysLast.before
           /\ Emitted.payload = Strip(Text(sysLast.datagram))
           /\ Emitted.priority = 13
           /\ Emitted.facility = 1
           /\ Emitted.severity = Member("Severity", "INFO")
           /\ Emitted.hostname = "unknown"
           /\ Emitted.process_name = "unknown"

\* What the listeners count of the datagrams they drop: neither has a
\* counter, the except branches only write to the log.
DropCounter == 0

\* C26: a datagram or trap that finds the queue at capacity leaves the
\* queue as it was, and the drop counter holds the number of datagrams
\* dropped so.
C26_FullQueueDropsAndCounts ==
    /\ (sysLast.op /= "none" /\ sysLast.full)
          => sysLast.after = sysLast.before
    /\ DropCounter = sysDrops

\* ------------------------------------------------------------- Validator
validRest == <<daemonState, routerVars, bufferUnit, authUnit, credUnit,
               listenUnit, mtLast, deviceUnit, startUnit, lateVars>>

\* msg.source_ip = ip, msg.payload = payload: the caller fills the message
\* in again between two calls.
ValAssign(ip, payload) ==
    /\ valMsg.source_ip /= ip \/ valMsg.payload /= payload
    /\ valMsg' = [valMsg EXCEPT !.source_ip = ip, !.payload = payload]
    /\ UNCHANGED <<valCalls, valLast, validRest>>

\* Validator.validate(msg) on the message in hand.
ValidateCall ==
    /\ valCalls < MaxValidations
    /\ valCalls' = valCalls + 1
    /\ valMsg' = Validated(valMsg)
    /\ valLast' = [op |-> "validate", before |-> valMsg,
                   result |-> Validate(valMsg), after |-> valMsg']
    /\ UNCHANGED validRest

ValPayloads == Texts \cup {" "}
Assign == \E ip \in SourceIps, payload \in ValPayloads : ValAssign(ip, payload)
NextValid == Assign \/ ValidateCall
ValidInit ==
    /\ Started
    /\ Running
    /\ rules = <<>>
    /\ handlers = NoHandlers
    /\ NoCredentials
    /\ Unbounded
    /\ \E ip \in SourceIps, payload \in ValPayloads :
          valMsg = Message(1, ip, "SYSLOG", payload)
ValidSpec == ValidInit /\ [][NextValid]_vars

\* metadata["validation_errors"] of a message, empty when the key is missing.
ErrorsOf(msg) ==
    IF "validation_errors" \in DOMAIN msg.metadata
       THEN msg.metadata["validation_errors"] ELSE <<>>
\* The error texts the call that has just returned added.
Gained ==
    SubSeq(ErrorsOf(valLast.after), Len(ErrorsOf(valLast.before)) + 1,
           Len(ErrorsOf(valLast.after)))

\* C27: validate returns true iff source_ip and payload are both non-empty;
\* the errors list keeps what it held and gains one text for an empty
\* source_ip and one for an empty payload, nothing else.
C27_ValidIffBothNonEmpty ==
    valLast.op = "validate" =>
        LET msg == valLast.before
        IN /\ valLast.result = (msg.source_ip /= "" /\ msg.payload /= "")
           /\ SubSeq(ErrorsOf(valLast.after), 1, Len(ErrorsOf(msg)))
                 = ErrorsOf(msg)
           /\ Len(Gained) = (IF msg.source_ip = "" THEN 1 ELSE 0)
                              + (IF msg.payload = "" THEN 1 ELSE 0)
           /\ (msg.source_ip = "") =
                 (\E k \in 1..Len(Gained) :
                     Gained[k] = "Missing required field: source_ip")
           /\ (msg.payload = "") =
                 (\E k \in 1..Len(Gained) :
                     Gained[k] = "Payload cannot be empty")
           /\ [valLast.after EXCEPT !.metadata = msg.metadata] = msg

\* A second call on a message with both fields empty.
C27_Witness ==
    /\ valLast.op = "validate"
    /\ valLast.before.source_ip = ""
    /\ valLast.before.payload = ""
    /\ Len(ErrorsOf(valLast.before)) = 2
    /\ ~valLast.result
    /\ Len(ErrorsOf(valLast.after)) = 4

\* -------------------------------------------------- PatternMatcher alone
\* Rules of every kind: the four of the rule-matching scenario, a disabled
\* rule, rules with an empty pattern, a keyword in capitals and an
\* expression that does not compile.
Disabled(rule) == [rule EXCEPT !.enabled = FALSE]
MatcherRules ==
    {AlertRule("kw", "keyword", "authentication failure", <<"store">>),
     AlertRule("ex", "exact", "authentication failure for admin", <<"store">>),
     AlertRule("re", "regex", "auth.*failure", <<"store">>),
     AlertRule("no", "keyword", "success", <<"store">>),
     AlertRule("up", "keyword", "FAILURE", <<"store">>),
     Disabled(AlertRule("off", "keyword", "failure", <<"store">>)),
     AlertRule("e1", "keyword", "", <<"store">>),
     AlertRule("e2", "exact", "", <<"store">>),
     BrokenRule}
Scenario ==
    <<AlertRule("kw", "keyword", "authentication failure", <<"store">>),
      AlertRule("ex", "exact", "authentication failure for admin", <<"store">>),
      AlertRule("re", "regex", "auth.*failure", <<"store">>),
      AlertRule("no", "keyword", "success", <<"store">>)>>
MatcherRuleLists ==
    {<<>>, Scenario} \cup {<<r>> : r \in MatcherRules}
        \cup {<<r1, r2>> : r1 \in MatcherRules, r2 \in MatcherRules}
MatcherPayloads ==
    {"", "authentication failure for admin",
     "Authentication Failure for admin", "login success"}

matchRest == <<daemonState, rtRules, rtCalls, rtTasks, rtPc, bufferUnit,
               authUnit, credUnit, listenUnit, validUnit, deviceUnit,
               startUnit, lateVars>>

\* PatternMatcher.match(msg) for a message with the given payload: the
\* list of matching rules, or re.error from re.search.
MatchCall(payload) ==
    LET msg == Message(1, "10.0.0.1", "SYSLOG", payload)
    IN /\ mtLast' = IF MatchRaises(msg)
                       THEN [op |-> "match", payload |-> payload,
                             raised |-> TRUE]
                       ELSE [op |-> "match", payload |-> payload,
                             raised |-> FALSE, result |-> Match(msg)]
       /\ UNCHANGED <<rules, handlers, matchRest>>

NextMatch == \E payload \in MatcherPayloads : MatchCall(payload)
MatchInit ==
    /\ Started
    /\ AsDaemonBuilds
    /\ handlers = NoHandlers
    /\ rules \in MatcherRuleLists
MatchSpec == MatchInit /\ [][NextMatch]_vars

\* Which rule's pattern matches which payload, worked out by hand.
Hits ==
    {<<"kw", "authentication failure for admin">>,
     <<"kw", "Authentication Failure for admin">>,
     <<"ex", "authentication failure for admin">>,
     <<"re", "authentication failure for admin">>,
     <<"re", "Authentication Failure for admin">>,
     <<"no", "login success">>,
     <<"up", "authentication failure for admin">>,
     <<"up", "Authentication Failure for admin">>}

\* C28: match returns the enabled rules with a non-empty pattern whose
\* pattern matches the payload, in the order of the rule list.
C28_ReturnsMatchingRules ==
    mtLast.op = "match" =>
        /\ ~mtLast.raised
        /\ mtLast.result =
              SelectSeq(rules, LAMBDA r : <<r.id, mtLast.payload>> \in Hits)

\* -------------------------------------------------------- DeviceRegistry
\* None as a parameter, NULL as a column value.
None == "None"
DeviceNames == {None, "r1", "r2"}
SnmpVersions == {None, "v2c"}

\* COALESCE(excluded.x, devices.x)
Coalesce(excluded, existing) == IF excluded /= None THEN excluded ELSE existing

\* An upsert that overwrites both columns with the values given.
UpsertDeviceOverwrites(rows, new) ==
    {r \in rows : r.ip /= new.ip} \cup {new}

\* INSERT INTO devices ... ON CONFLICT(ip) DO UPDATE SET ...: ip is the
\* primary key.
UpsertDevice(rows, new) ==
    IF \E r \in rows : r.ip = new.ip
       THEN {IF r.ip = new.ip
                THEN [r EXCEPT
                         !.hostname = Coalesce(new.hostname, r.hostname),
                         !.snmp_version =
                             Coalesce(new.snmp_version, r.snmp_version),
                         !.last_seen = new.last_seen]
                ELSE r : r \in rows}
       ELSE rows \cup {new}

deviceRest == <<daemonState, routerVars, bufferUnit, authUnit, credUnit,
                listenUnit, validUnit, mtLast, startUnit, lateVars>>

\* DeviceRegistry.update_device(ip, hostname, snmp_version), called when
\* the clock shows t: execute, then commit.
UpdateDevice(ip, hostname, snmp_version, t) ==
    /\ Len(devCalls) < MaxDeviceCalls
    /\ devClock' = t
    /\ devRows' = UpsertDevice(devRows,
                               [ip |-> ip, hostname |-> hostname,
                                snmp_version |-> snmp_version,
                                last_seen |-> t])
    /\ devCalls' = Append(devCalls,
                          [ip |-> ip, hostname |-> hostname,
                           snmp_version |-> snmp_version, time |-> t])
    /\ UNCHANGED deviceRest

\* Calls follow each other at once or after some time has passed.
DeviceIps == {"10.0.0.1", "10.0.0.2"}
NextDevice ==
    \E ip \in DeviceIps, hostname \in DeviceNames,
       snmp_version \in SnmpVersions, t \in devClock..(devClock + 1) :
        UpdateDevice(ip, hostname, snmp_version, t)
DeviceSpec == Init /\ [][NextDevice]_vars

\* The calls made for one address, and the last value other than None
\* that they gave for a column.
CallsFor(ip) == SelectSeq(devCalls, LAMBDA c : c.ip = ip)
RECURSIVE LastGiven(_, _)
LastGiven(calls, column) ==
    IF calls = <<>> THEN None
    ELSE IF calls[Len(calls)][column] /= None THEN calls[Len(calls)][column]
    ELSE LastGiven(SubSeq(calls, 1, Len(calls) - 1), column)
DeviceRowsAsCalled ==
    \A ip \in {c.ip : c \in {devCalls[k] : k \in 1..Len(devCalls)}}
            \cup {r.ip : r \in devRows} :
        LET calls == CallsFor(ip)
            found == {r \in devRows : r.ip = ip}
        IN /\ calls /= <<>>
           /\ found = {[ip |-> ip,
                        hostname |-> LastGiven(calls, "hostname"),
                        snmp_version |-> LastGiven(calls, "snmp_version"),
                        last_seen |-> calls[Len(calls)].time]}
LastSeenGrows ==
    \A r \in devRows : \A q \in devRows' :
        q.ip = r.ip => q.last_seen >= r.last_seen

ListenerNames == {"syslog", "snmp"}
StartEnvs ==
    [enabled : SUBSET ListenerNames, fails : SUBSET ListenerNames,
     processor : {"ok", "raises"}]

startRest == <<now, retention_days, failures, routerVars, bufferUnit,
               authUnit, credUnit, listenUnit, validUnit, mtLast,
               deviceUnit, lateVars, startEnv, nextId, queue, unfinished, plPc, plMsg,
               bufferVars, batchVars, archiveVars, dbVars, ffBatch,
               ghostVars>>

\* await self._start_processor(): an exception is logged and raised again,
\* and main's except branch takes over.
StartProcessor ==
    /\ dPc = "start_processor"
    /\ dPc' = IF startEnv.processor = "raises" THEN "fatal"
                                               ELSE "start_syslog"
    /\ UNCHANGED <<listeners, exitCode, startRest>>

\* One try block of _start_listeners: the listener is constructed and
\* started if the configuration enables it; an exception of start() is
\* caught and logged, and _start_listeners goes on.
StartListener(name) ==
    IF name \in startEnv.enabled /\ name \notin startEnv.fails
       THEN listeners' = listeners \cup {name}
       ELSE UNCHANGED listeners
StartSyslog ==
    /\ dPc = "start_syslog"
    /\ StartListener("syslog")
    /\ dPc' = "start_snmp"
    /\ UNCHANGED <<exitCode, startRest>>

\* The second try block; then the signal handlers are installed and main
\* logs "MUTT daemon is running" and waits for the shutdown event.
StartSnmp ==
    /\ dPc = "start_snmp"
    /\ StartListener("snmp")
    /\ dPc' = "running"
    /\ UNCHANGED <<exitCode, startRest>>

\* main's except branch: shutdown(), then sys.exit(1).
Fatal ==
    /\ dPc = "fatal"
    /\ listeners' = {}
    /\ exitCode' = 1
    /\ dPc' = "exited"
    /\ UNCHANGED startRest

NextStart == StartProcessor \/ StartSyslog \/ StartSnmp \/ Fatal
StartInit ==
    /\ Started
    /\ NoCredentials /\ Unbounded /\ NoneInHand
    /\ rules = <<>>
    /\ handlers = NoHandlers
    /\ startEnv \in StartEnvs
    /\ listeners = {}
    /\ dPc = "start_processor"
StartSpec == StartInit /\ [][NextStart]_vars

\* C30: when an enabled listener fails to start, the daemon does not
\* reach the running state.
C30_StartFailureIsFatal ==
    (startEnv.enabled \cap startEnv.fails /= {}) => dPc /= "running"

\* --------------------------------------------------------------- Enricher
\* Values a caller can leave in msg.severity besides a member of Severity:
\* a text, a number, None, a member of another enumeration.
Str(text) == [str |-> text]
Number(n) == [int |-> n]
PyNone == [none |-> TRUE]
IsSeverity(v) == "enum" \in DOMAIN v /\ v.enum = "Severity"
IsStr(v) == "str" \in DOMAIN v

\* str.upper, letter by letter.
UpperChar(c) ==
    IF \E C \in DOMAIN LowerCase : LowerCase[C] = c
       THEN CHOOSE C \in DOMAIN LowerCase : LowerCase[C] = c
       ELSE c
RECURSIVE Upper(_)
Upper(text) ==
    IF Len(text) = 0 THEN ""
    ELSE UpperChar(SubSeq(text, 1, 1)) \o Upper(SubSeq(text, 2, Len(text)))

\* Severity[name]: lookup of a member by name; KeyError for no member.
SeverityByName(name) ==
    IF name \in Severities THEN Member("Severity", name)
    ELSE [enum |-> "KeyError", name |-> name]

\* A normalisation that looks the text up as it is written.
NormalizeSeverityAsWritten(severity) ==
    IF IsSeverity(severity) THEN severity
    ELSE IF IsStr(severity) /\ IsSeverity(SeverityByName(severity.str))
         THEN SeverityByName(severity.str)
         ELSE Member("Severity", "INFO")

\* Enricher._normalize_severity: the value msg.severity is left with.
NormalizeSeverity(severity) ==
    IF IsSeverity(severity) THEN severity
    ELSE IF IsStr(severity) /\ IsSeverity(SeverityByName(Upper(severity.str)))
         THEN SeverityByName(Upper(severity.str))
         ELSE Member("Severity", "INFO")

\* What enrich leaves of a message when the reverse lookup gave hostname
\* (None when it failed).
Enriched(msg, hostname) ==
    [msg EXCEPT !.metadata = IF hostname /= None
                                THEN Put(@, "hostname", hostname) ELSE @,
                !.severity = NormalizeSeverity(@)]

SeverityValues ==
    {Member("Severity", "ERROR"), Member("Severity", "DEBUG"),
     Str("error"), Str("Warning"), Str("DEBUG"), Str("bogus"), Str(""),
     Number(3), PyNone, Member("MessageType", "SYSLOG")}

enrichRest == <<daemonState, routerVars, bufferUnit, authUnit, credUnit,
                listenUnit, validUnit, mtLast, startUnit, devClock, devCalls,
                carryUnit, lifeUnit, atSignal>>

\* Message(..., severity=v), or msg.severity = v on the message in hand.
EnAssign(v) ==
    /\ enMsg' = IF enMsg = <<>>
                   THEN [Message(1, "10.0.0.1", "SYSLOG", "link down")
                            EXCEPT !.severity = v]
                   ELSE [enMsg EXCEPT !.severity = v]
    /\ enMsg' /= enMsg
    /\ UNCHANGED <<enLast, devRows, enrichRest>>

\* await enricher.enrich(msg): the reverse lookup gives a name or None,
\* update_device upserts the device row or raises (caught and logged),
\* then the severity is normalised.
EnrichCall(hostname, registry) ==
    /\ enMsg /= <<>>
    /\ enMsg' = Enriched(enMsg, hostname)
    /\ devRows' = IF registry = "ok"
                     THEN UpsertDevice(devRows,
                              [ip |-> enMsg.source_ip, hostname |-> hostname,
                               snmp_version |-> None, last_seen |-> devClock])
                     ELSE devRows
    /\ enLast' = [op |-> "enrich", before |-> enMsg, after |-> enMsg']
    /\ UNCHANGED enrichRest

EnSet == \E v \in SeverityValues : EnAssign(v)
EnCall == \E hostname \in {None, "r1"}, registry \in {"ok", "raises"} :
             EnrichCall(hostname, registry)
NextEnrich == EnSet \/ EnCall
EnrichSpec == Init /\ [][NextEnrich]_vars

\* The member each value that is no member of Severity is replaced by,
\* worked out by hand.
Normal ==
    [v \in SeverityValues |->
        CASE v = Str("error") -> Member("Severity", "ERROR")
          [] v = Str("Warning") -> Member("Severity", "WARNING")
          [] v = Str("DEBUG") -> Member("Severity", "DEBUG")
          [] OTHER -> Member("Severity", "INFO")]

\* C31: after enrich, msg.severity is a member of Severity: the member it
\* was, the member named by the uppercased text, or INFO.
C31_SeverityNormalized ==
    enLast.op = "enrich" =>
        /\ enLast.after.severity \in
              {Member("Severity", name) : name \in Severities}
        /\ enLast.after.severity =
              IF enLast.before.severity \in
                    {Member("Severity", name) : name \in Severities}
                 THEN enLast.before.severity
                 ELSE Normal[enLast.before.severity]

C31_Witness ==
    /\ enLast.op = "enrich"
    /\ enLast.before.severity = Str("Warning")
    /\ enLast.after.severity = Member("Severity", "WARNING")

\* ------------------------------------------- FileBuffer and Store together
MaxCarried == 3

\* SNMPTrap(..., oid=oid, varbinds=data_dict, version=version) as
\* process_trap builds it.
WithTrapFields(msg, oid, varbinds, version) ==
    [id |-> msg.id, timestamp |-> msg.timestamp,
     source_ip |-> msg.source_ip, message_type |-> msg.message_type,
     severity |-> msg.severity, payload |-> msg.payload,
     metadata |-> msg.metadata,
     oid |-> oid, varbinds |-> varbinds, version |-> version]

\* isinstance(msg, SyslogMessage), isinstance(msg, SNMPTrap): the variant
\* is the class the object was built as, seen here by its fields.
IsSyslogMessage(msg) == "facility" \in DOMAIN msg
IsSNMPTrap(msg) == "oid" \in DOMAIN msg

RECURSIVE PutAll(_, _, _)
PutAll(d, keys, from) ==
    IF keys = <<>> THEN d
    ELSE PutAll(Put(d, Head(keys), from[Head(keys)]), Tail(keys), from)

SyslogFields == <<"facility", "priority", "hostname", "process_name",
                  "process_id">>
TrapFields == <<"oid", "varbinds", "version">>

\* The metadata store_message encodes into the row: msg.metadata updated
\* with the fields of the variant (the members of the JSON object).
StoredMetadata(msg) ==
    IF IsSyslogMessage(msg) THEN PutAll(msg.metadata, SyslogFields, msg)
    ELSE IF IsSNMPTrap(msg) THEN PutAll(msg.metadata, TrapFields, msg)
    ELSE msg.metadata

\* The messages the two listeners put on the queue.
Carried(id) ==
    {ParseSyslogMessage(id, "<134>" \o Header \o "link down", "10.0.0.1"),
     ParseSyslogMessage(id, "link down", "10.0.0.1"),
     WithTrapFields(SNMPTrap(id, "10.0.0.2"), "1.3.6.1.6.3.1.1.5.3",
                    Put(EmptyDict, "1.3.6.1.2.1.2.2.1.1", "2"), "v2c")}

carryRest == <<now, retention_days, failures, routerVars, pipelineVars,
               writers, flushers, batchVars, archiveVars, dbVars,
               daemonVars, ghostVars, bufferUnit, authUnit, credUnit,
               listenUnit, validUnit, mtLast, deviceUnit, startUnit,
               enrichUnit, lifeUnit, atSignal>>

\* await buffer.write(msg)
CarryWrite ==
    /\ Len(cyIn) < MaxCarried
    /\ \E msg \in Carried(Len(cyIn) + 1) :
          /\ IF Len(memory) + 1 >= FlushThreshold
                THEN /\ file' = AppendLines(file, Append(memory, Line(msg)))
                     /\ fileExists' = TRUE
                     /\ memory' = <<>>
                ELSE /\ memory' = Append(memory, Line(msg))
                     /\ UNCHANGED <<file, fileExists>>
          /\ cyIn' = Append(cyIn, msg)
    /\ UNCHANGED <<cyOut, cyRows, carryRest>>

\* messages = await buffer.flush()
CarryFlush ==
    /\ cyOut = <<>>
    /\ file' = <<>>
    /\ memory' = <<>>
    /\ fileExists' = (fileExists \/ memory /= <<>>)
    /\ cyOut' = IF fileExists' THEN ParseLines(AppendLines(file, memory))
                                ELSE <<>>
    /\ UNCHANGED <<cyIn, cyRows, carryRest>>

\* await database.store_message(msg) for the next flushed message
CarryStore ==
    /\ cyOut /= <<>>
    /\ cyRows' = Append(cyRows, [id |-> Head(cyOut).id,
                                  metadata |-> StoredMetadata(Head(cyOut))])
    /\ cyOut' = Tail(cyOut)
    /\ UNCHANGED <<cyIn, memory, file, fileExists, carryRest>>

\* await buffer.write(msg) reaching the threshold, with the append failing
\* (open or write raises IOError): _write_batch_sync prints the error and
\* returns; the list was cleared before the thread started.
CarryWriteFails ==
    /\ Len(cyIn) < MaxCarried
    /\ Len(memory) + 1 >= FlushThreshold
    /\ \E msg \in Carried(Len(cyIn) + 1) : cyIn' = Append(cyIn, msg)
    /\ memory' = <<>>
    /\ UNCHANGED <<file, fileExists, cyOut, cyRows, carryRest>>

\* messages = await buffer.flush() with lines in memory and their append
\* failing: _flush_sync then reads and truncates the file as it is.
CarryFlushFails ==
    /\ cyOut = <<>>
    /\ memory /= <<>>
    /\ memory' = <<>>
    /\ file' = <<>>
    /\ cyOut' = IF fileExists THEN ParseLines(file) ELSE <<>>
    /\ UNCHANGED <<fileExists, cyIn, cyRows, carryRest>>

NextCarry == \/ CarryWrite
             \/ CarryFlush
             \/ CarryStore
             \/ CarryWriteFails
             \/ CarryFlushFails
CarrySpec == Init /\ [][NextCarry]_vars

\* The fields of its variant that a written message carries.
VariantFields(msg) ==
    IF IsSyslogMessage(msg) THEN SyslogFields
    ELSE IF IsSNMPTrap(msg) THEN TrapFields ELSE <<>>

\* C32: the metadata of every stored row contains the variant-specific
\* fields of the message that was written to the buffer.
C32_VariantFieldsStored ==
    \A r \in 1..Len(cyRows) : \A i \in 1..Len(cyIn) :
        cyIn[i].id = cyRows[r].id =>
            \A k \in 1..Len(VariantFields(cyIn[i])) :
                LET key == VariantFields(cyIn[i])[k]
                IN /\ key \in DOMAIN cyRows[r].metadata
                   /\ cyRows[r].metadata[key] = cyIn[i][key]

\* ------------------------------------------- archiving beside the writers
\* C33: every row the DELETE of archive_old_messages removes from messages
\* is a line of the archive file that call wrote.
C33_DeletesOnlyArchived ==
    [][(arPc = "delete" /\ arPc' = "insert") =>
          \A r \in dbMsgs \ dbMsgs' :
              \E k \in 1..Len(FileOf(arFile).lines) :
                  FileOf(arFile).lines[k] = r]_vars

\* ------------------------------------------------ the queue at shutdown
\* A valid message with this id waits in the queue.
Waiting(id) ==
    \E k \in 1..Len(queue) : queue[k].id = id /\ Validate(queue[k])

\* The signal, with the ids of the valid messages that wait in the queue
\* at that moment noted.
SignalNoted ==
    /\ dPc = "running"
    /\ dPc' = "signalled"
    /\ shutdownLog' = Append(shutdownLog, "event_set")
    /\ atSignal' = {id \in Ids : Waiting(id)}
    /\ UNCHANGED <<now, retention_days, routerVars, bufferUnit, authUnit,
                   credUnit, listenUnit, validUnit, mtLast, deviceUnit,
                   startUnit, enrichUnit, carryUnit, lifeUnit, failures,
                   pipelineVars, bufferVars, batchVars, archiveVars, dbVars,
                   ffBatch, written, returned, dequeued, taskDone,
                   storeCalls, raised, failed, routed, pipeLog, archiveLog>>

\* The daemon with every store_message succeeding, from its start to the
\* end of its shutdown.
FinalSteps == \/ Shutdown
              \/ FinalFlushBegin
              \/ FinalMemDone
              \/ FinalFlushDone
              \/ FinalInsert
              \/ FinalCommit
              \/ Close
NextDrain == \/ Listen
             \/ Process
             \/ Threads
             \/ Batch
             \/ Archive
             \/ SignalNoted
             \/ FinalSteps
DrainSpec == Init /\ [][NextDrain]_vars

\* C34: once the shutdown has completed, no valid message that was in the
\* queue when the signal arrived is still in the queue: each has been
\* stored.
C34_QueueDrainedAtShutdown ==
    (dPc = "done" /\ failures = 0) =>
        \A id \in atSignal : ~Waiting(id) /\ id \in Stored

\* --------------------------------------- MessageProcessor.start and stop
MaxSignals == 2
MaxStartCalls == 2
MaxStopCalls == 3

LoopNames == {"process_loop", "batch_write_loop", "archive_loop"}
Callers == {"main", "other"}

lifeRest == <<now, retention_days, failures, routerVars, pipelineVars,
              bufferVars, batchVars, archiveVars, dbVars, daemonVars,
              ghostVars, bufferUnit, authUnit, credUnit, listenUnit,
              validUnit, mtLast, deviceUnit, startUnit, enrichUnit,
              carryUnit, atSignal>>

\* A start that never looks at the flag.
StartReturnsAtOnceNever == FALSE

\* start: if self.running: warn and return
StartReturnsAtOnce == lfRunning

\* A stop that never looks at the flag.
StopReturnsAtOnceNever == FALSE

\* stop: if not self.running: return
StopReturnsAtOnce == ~lfRunning

\* self.tasks = [create_task(process_loop), create_task(batch_write_loop),
\* create_task(archive_loop)]
Spawned == [name \in LoopNames |-> lfTasks[name] + 1]

\* _start_processor: processor.start() up to await database.initialize().
LfStartBegin ==
    /\ lfMain = "starting"
    /\ lfCalls' = [lfCalls EXCEPT !.start = @ + 1]
    /\ IF StartReturnsAtOnce
          THEN lfMain' = "wait" /\ UNCHANGED lfRunning
          ELSE lfMain' = "initialize" /\ lfRunning' = TRUE
    /\ UNCHANGED <<lfConnection, lfTasks, lfEvent, lfStop, lfDone, lifeRest>>

\* initialize() returns: the three tasks are created, start returns, main
\* installs the signal handlers and waits for the shutdown event.
LfStartSpawn ==
    /\ lfMain = "initialize"
    /\ lfConnection' = "open"
    /\ lfTasks' = Spawned
    /\ lfMain' = "wait"
    /\ UNCHANGED <<lfRunning, lfEvent, lfStop, lfDone, lfCalls, lifeRest>>

\* initialize() raises: start raises with running still True and no task;
\* main's handler calls shutdown().
LfStartRaises ==
    /\ lfMain = "initialize"
    /\ lfMain' = "shutdown"
    /\ UNCHANGED <<lfRunning, lfConnection, lfTasks, lfEvent, lfStop, lfDone,
                   lfCalls, lifeRest>>

\* processor.start() once more, on the processor main has started and
\* nobody has stopped: with the flag set it returns; without the flag it
\* would initialize and create three more tasks.
LfStartAgain ==
    /\ lfMain \in {"wait", "shutdown"}
    /\ lfConnection = "open"
    /\ \A caller \in Callers : lfStop[caller] = "idle"
    /\ lfCalls.start < MaxStartCalls
    /\ lfCalls' = [lfCalls EXCEPT !.start = @ + 1]
    /\ IF StartReturnsAtOnce
          THEN UNCHANGED <<lfRunning, lfTasks>>
          ELSE lfRunning' = TRUE /\ lfTasks' = Spawned
    /\ UNCHANGED <<lfConnection, lfEvent, lfMain, lfStop, lfDone, lifeRest>>

\* SIGINT or SIGTERM while the handlers are installed: shutdown_event.set()
LfSignal ==
    /\ lfMain \in {"wait", "shutdown"}
    /\ lfCalls.signal < MaxSignals
    /\ lfCalls' = [lfCalls EXCEPT !.signal = @ + 1]
    /\ lfEvent' = TRUE
    /\ UNCHANGED <<lfRunning, lfConnection, lfTasks, lfMain, lfStop, lfDone,
                   lifeRest>>

\* shutdown_event.wait() returns and main calls shutdown().
LfMainWake ==
    /\ lfMain = "wait"
    /\ lfEvent
    /\ lfMain' = "shutdown"
    /\ UNCHANGED <<lfRunning, lfConnection, lfTasks, lfEvent, lfStop, lfDone,
                   lfCalls, lifeRest>>

\* stop() up to its first await: return at once when not running, else
\* clear the flag and cancel every task of self.tasks.
StopBegin(caller) ==
    /\ lfStop[caller] \in {"idle", "returned"}
    /\ lfMain \in {"wait", "shutdown"}
    /\ caller = "main" => (lfMain = "shutdown" /\ lfStop[caller] = "idle")
    /\ lfCalls.stop < MaxStopCalls
    /\ lfCalls' = [lfCalls EXCEPT !.stop = @ + 1]
    /\ IF StopReturnsAtOnce
          THEN /\ lfStop' = [lfStop EXCEPT ![caller] = "returned"]
               /\ UNCHANGED <<lfRunning, lfDone>>
          ELSE /\ lfRunning' = FALSE
               /\ lfDone' = IF \E name \in LoopNames : lfTasks[name] > 0
                                THEN [lfDone EXCEPT !.cancel = @ + 1]
                                ELSE lfDone
               /\ lfStop' = [lfStop EXCEPT ![caller] = "gather"]
    /\ UNCHANGED <<lfConnection, lfTasks, lfEvent, lfMain, lifeRest>>

\* gather returns (every cancelled task has finished) and _final_flush
\* is awaited.
StopGathered(caller) ==
    /\ lfStop[caller] = "gather"
    /\ lfTasks' = [name \in LoopNames |-> 0]
    /\ lfStop' = [lfStop EXCEPT ![caller] = "flush"]
    /\ UNCHANGED <<lfRunning, lfConnection, lfEvent, lfMain, lfDone, lfCalls,
                   lifeRest>>

\* _final_flush returns; connection.close() is awaited when there is a
\* connection.
StopFlushed(caller) ==
    /\ lfStop[caller] = "flush"
    /\ lfDone' = [lfDone EXCEPT !.flush = @ + 1]
    /\ lfStop' = [lfStop EXCEPT ![caller] =
                      IF lfConnection = "None" THEN "returned" ELSE "close"]
    /\ UNCHANGED <<lfRunning, lfConnection, lfTasks, lfEvent, lfMain, lfCalls,
                   lifeRest>>

\* connection.close() returns and with it stop().
StopClosed(caller) ==
    /\ lfStop[caller] = "close"
    /\ lfConnection' = "closed"
    /\ lfDone' = [lfDone EXCEPT !.close = @ + 1]
    /\ lfStop' = [lfStop EXCEPT ![caller] = "returned"]
    /\ UNCHANGED <<lfRunning, lfTasks, lfEvent, lfMain, lfCalls, lifeRest>>

\* main's processor.stop() has returned: shutdown() and main return.
LfMainDone ==
    /\ lfMain = "shutdown"
    /\ lfStop["main"] = "returned"
    /\ lfMain' = "done"
    /\ UNCHANGED <<lfRunning, lfConnection, lfTasks, lfEvent, lfStop, lfDone,
                   lfCalls, lifeRest>>

LfStop == \E caller \in Callers :
             \/ StopBegin(caller)
             \/ StopGathered(caller)
             \/ StopFlushed(caller)
             \/ StopClosed(caller)
NextLife == \/ LfStartBegin
            \/ LfStartSpawn
            \/ LfStartRaises
            \/ LfStartAgain
            \/ LfSignal
            \/ LfMainWake
            \/ LfStop
            \/ LfMainDone
LifeSpec == Init /\ [][NextLife]_vars

\* C35: the tasks are cancelled, the final flush is run and the connection
\* is closed at most once each, and there is never more than one task of
\* each loop; when main has returned and no stop() is still under way,
\* the final flush has run exactly once.
C35_ShutdownOnce ==
    /\ lfDone.cancel <= 1
    /\ lfDone.flush <= 1
    /\ lfDone.close <= 1
    /\ \A name \in LoopNames : lfTasks[name] <= 1
    /\ (lfMain = "done" /\ \A caller \in Callers :
                               lfStop[caller] \in {"idle", "returned"})
          => lfDone.flush = 1

C35_Witness ==
    /\ lfMain = "done"
    /\ lfCalls = [signal |-> 2, start |-> 2, stop |-> 3]
    /\ lfDone = [cancel |-> 1, flush |-> 1, close |-> 1]

\* ------------------------------------------- the in-memory list of lines
\* The last n lines of a file.
Suffix(f, n) == SubSeq(f, Len(f) - n + 1, Len(f))

RowIds == {cyRows[r].id : r \in 1..Len(cyRows)}

\* C37: also after an append that failed with an I/O error, every line
\* written is still in the FileBuffer (in memory or in the file) unless a
\* flush has returned it.
C37_FailedAppendKeepsLines ==
    \A i \in 1..Len(cyIn) :
        cyIn[i].id \in IdsOf(memory) \cup IdsOf(file) \cup IdsOf(cyOut)
                          \cup RowIds

\* ------------------------------------------------- the invalid message
\* The message process_loop takes next has an empty source_ip or payload.
HeadInvalid ==
    /\ plPc = "get"
    /\ queue /= <<>>
    /\ (Head(queue).source_ip = "" \/ Head(queue).payload = "")

\* C38: the step in which process_loop takes an invalid message from the
\* queue and _process_message returns leaves the matcher, the router and
\* its handler tasks, the devices table, the FileBuffer and the Store as
\* they were, and the loop is back at its get.
C38_InvalidChangesNothing ==
    [][(HeadInvalid /\ queue' = Tail(queue)) =>
          /\ UNCHANGED <<plPc, plMsg, mtLast, routerVars, routed, deviceUnit,
                         bufferVars, written, dbVars, failed>>
          /\ taskDone'[Head(queue).id] = taskDone[Head(queue).id] + 1]_vars

C38_Witness ==
    /\ rules /= <<>>
    /\ plPc = "get"
    /\ \E id \in dequeued :
          /\ taskDone[id] = 1
          /\ id \notin failed \cup routed \cup written

\* ------------------------------------------- the ranges of the PRI parts
\* C39: every SyslogMessage the listener puts on the queue has a facility
\* in 0..23 and a priority in 0..191.
C39_FacilityAndPriorityInRange ==
    \A k \in 1..Len(queue) :
        IsSyslogMessage(queue[k]) =>
            /\ queue[k].facility \in 0..23
            /\ queue[k].priority \in 0..191

\* ------------------------------------------------ nothing old to archive
\* C40: when the SELECT of archive_old_messages finds no row older than
\* the cutoff, the call returns at once: no archive file is written, no
\* row of messages or archives is inserted or deleted, and nothing is
\* committed.
C40_NothingOldIsNoOp ==
    [][(arPc = "select" /\ arPc' \notin {"select", "stopped"}
           /\ OlderThan(arCutoff) = {}) =>
          /\ arPc' = "sleep"
          /\ UNCHANGED <<archiveFiles, arRows, arFile, dbVars, archiveLog>>]_vars

C40_Witness ==
    /\ arPc = "sleep"
    /\ now > 0
    /\ archiveFiles = {}
    /\ dbArchives = {}
    /\ dbMsgs /= {}
    /\ cmMsgs /= dbMsgs
====
